---- MODULE Spec2Model ----
(***************************************************************************)
(* Access-control core of the forklift-management application: the         *)
(* in-memory session table (app/routes/auth.py), the two HTTP middlewares  *)
(* that gate every request (app/middleware.py, registered in main.py) and  *)
(* the role predicates (app/core/authz.py).                                *)
(*                                                                         *)
(* Spec       one request at a time, every handler one atomic step.        *)
(* SpecConc   the statements of the session operations interleaved, as the *)
(*            worker threads and the event loop interleave them.           *)
(* SpecCreate concurrent calls of create_session, statement by statement.  *)
(* SpecAuthz  the predicates of app/core/authz.py applied to principals    *)
(*            and jobs drawn from bounded sets.                            *)
(* SpecJobs   the endpoints that edit or delete one PM or workshop job.    *)
(* SpecUsers  Spec with the user-management endpoints of users.py.         *)
(* SpecForklifts  the two endpoints that delete forklifts.                 *)
(***************************************************************************)
EXTENDS Integers, Sequences, FiniteSets, TLC

VARIABLES
    active_sessions,  \* auth.py: token -> session record (a dict)
    users,            \* the users table: id -> row
    now,              \* datetime.now(), counted in whole days
    issued,           \* history: the tokens create_session has returned
    last,             \* history: the last request and what the pipeline did with it
    pc,               \* SpecConc: the statement each in-flight operation is at
    op,               \* SpecConc: the operation each process runs
    session,          \* SpecConc: the local variable `session` of each operation
    result,           \* SpecConc: how each operation ended
    principal,        \* SpecAuthz: the principal the predicates are applied to
    job,              \* SpecAuthz: the job the predicates are applied to
    ret,              \* SpecAuthz: the function applied last and what it returned
    db                \* SpecJobs, SpecForklifts: the tables of the database

vars == <<active_sessions, users, now, issued, last, pc, op, session, result,
          principal, job, ret, db>>
concVars == <<pc, op, session, result>>
dataVars == <<principal, job, ret, db>>

----------------------------------------------------------------------------
(* Bounds of the model *)

NumTokens == 2
MaxTime == 2
NumProcs == 2
MaxAssigned == 2

(* Program constants *)

SessionTTL == 1
HTTP_303_SEE_OTHER == 303
HTTP_401_UNAUTHORIZED == 401
HTTP_403_FORBIDDEN == 403
HTTP_200_OK == 200
HTTP_404_NOT_FOUND == 404
HTTP_500_INTERNAL_SERVER_ERROR == 500
max_age == 86400

----------------------------------------------------------------------------
(* Python values.  A value that the code inspects with isinstance / is None *)
(* is a tagged record; a str is its sequence of characters.                *)

PyNone == [t |-> "none", s |-> <<>>, n |-> 0]
PyStr(chars) == [t |-> "str", s |-> chars, n |-> 0]
PyInt(k) == [t |-> "int", s |-> <<>>, n |-> k]

UpperChars == <<"A","B","C","D","E","F","G","H","I","J","K","L","M",
                "N","O","P","Q","R","S","T","U","V","W","X","Y","Z">>
LowerChars == <<"a","b","c","d","e","f","g","h","i","j","k","l","m",
                "n","o","p","q","r","s","t","u","v","w","x","y","z">>

LowerChar(c) ==
    IF \E i \in 1..Len(UpperChars) : UpperChars[i] = c
    THEN LowerChars[CHOOSE i \in 1..Len(UpperChars) : UpperChars[i] = c]
    ELSE c

\* str.lower()
Lower(chars) == [i \in 1..Len(chars) |-> LowerChar(chars[i])]

IsSpace(c) == c \in {" ", "\t", "\n", "\r"}

RECURSIVE LStrip(_)
LStrip(chars) ==
    IF chars = <<>> THEN chars
    ELSE IF IsSpace(Head(chars)) THEN LStrip(Tail(chars)) ELSE chars

RECURSIVE RStrip(_)
RStrip(chars) ==
    IF chars = <<>> THEN chars
    ELSE IF IsSpace(chars[Len(chars)])
         THEN RStrip(SubSeq(chars, 1, Len(chars) - 1)) ELSE chars

\* str.strip()
Strip(chars) == RStrip(LStrip(chars))

\* str.startswith over a path cut at the places where the prefixes end
StartsWith(path, prefix) ==
    /\ Len(prefix) <= Len(path)
    /\ SubSeq(path, 1, Len(prefix)) = prefix

----------------------------------------------------------------------------
(* Role strings *)

S_admin == <<"a","d","m","i","n">>
S_Admin == <<"A","d","m","i","n">>
S_admin_padded == <<" ","a","d","m","i","n"," ">>
S_supervisor == <<"s","u","p","e","r","v","i","s","o","r">>
S_teknisi == <<"t","e","k","n","i","s","i">>
S_user == <<"u","s","e","r">>

----------------------------------------------------------------------------
(* app/core/authz.py: the role predicates *)

\* request.state.user when the attribute is not set
NoUser == [kind |-> "none", id |-> PyNone, name |-> "", email |-> "", role |-> PyNone]

\* a variant in which a principal without a usable role counts as a plain user
_normalized_role_DefaultUser(current_user) ==
    IF current_user.kind = "dict" /\ current_user.role.t = "str"
    THEN Lower(Strip(current_user.role.s))
    ELSE S_user

_normalized_role(current_user) ==
    IF current_user.kind = "dict" /\ current_user.role.t = "str"
    THEN Lower(Strip(current_user.role.s))
    ELSE <<>>

is_admin(current_user) == _normalized_role(current_user) = S_admin

is_supervisor(current_user) == _normalized_role(current_user) = S_supervisor

\* a variant that counts everyone who is not an admin as a plain user
is_user_AnyNonAdmin(current_user) == _normalized_role(current_user) # S_admin

is_user(current_user) == _normalized_role(current_user) \in {S_user, S_teknisi}

\* get_current_user(request): the value returned, or the 401 it raises
authz_get_current_user(state_user) ==
    IF state_user.kind = "none"
    THEN [raised |-> HTTP_401_UNAUTHORIZED, user |-> NoUser]
    ELSE [raised |-> 0, user |-> state_user]

----------------------------------------------------------------------------
(* app/core/authz.py: the principal's id and the assignment resolver *)

\* a value int() has no conversion for (a list): int() raises TypeError
PyList == [t |-> "list", s |-> <<>>, n |-> 0]

Digits == <<"0","1","2","3","4","5","6","7","8","9">>

IsDigit(c) == \E i \in 1..Len(Digits) : Digits[i] = c

DigitVal(c) == (CHOOSE i \in 1..Len(Digits) : Digits[i] = c) - 1

RECURSIVE DecimalValue(_)
DecimalValue(chars) ==
    IF chars = <<>> THEN 0
    ELSE 10 * DecimalValue(SubSeq(chars, 1, Len(chars) - 1))
         + DigitVal(chars[Len(chars)])

\* int(v): the integer, or the exception it raises.  An int is itself; a str
\* is stripped and read as an optional sign and decimal digits (ValueError
\* otherwise); None and values of other types raise TypeError.
int(v) ==
    CASE v.t = "int" -> [err |-> "", n |-> v.n]
      [] v.t = "str" ->
           LET body == Strip(v.s)
               signed == body # <<>> /\ Head(body) \in {"+", "-"}
               digits == IF signed THEN Tail(body) ELSE body
           IN IF digits # <<>> /\ \A i \in 1..Len(digits) : IsDigit(digits[i])
              THEN [err |-> "",
                    n |-> IF signed /\ Head(body) = "-"
                          THEN 0 - DecimalValue(digits) ELSE DecimalValue(digits)]
              ELSE [err |-> "ValueError", n |-> 0]
      [] OTHER -> [err |-> "TypeError", n |-> 0]

\* `except (TypeError, ValueError)`
CaughtErrors == {"TypeError", "ValueError"}

\* a variant whose except clause names TypeError only
_safe_user_id_ValueErrorEscapes(current_user) ==
    IF current_user.kind # "dict" THEN [raised |-> "", value |-> PyNone]
    ELSE IF current_user.id.t = "none" THEN [raised |-> "", value |-> PyNone]
    ELSE LET r == int(current_user.id) IN
         IF r.err = "" THEN [raised |-> "", value |-> PyInt(r.n)]
         ELSE IF r.err = "TypeError" THEN [raised |-> "", value |-> PyNone]
         ELSE [raised |-> r.err, value |-> PyNone]

\* _safe_user_id: the id as a Python value (an int or None), or what it raises
_safe_user_id(current_user) ==
    IF current_user.kind # "dict" THEN [raised |-> "", value |-> PyNone]
    ELSE IF current_user.id.t = "none" THEN [raised |-> "", value |-> PyNone]
    ELSE LET r == int(current_user.id) IN
         IF r.err = "" THEN [raised |-> "", value |-> PyInt(r.n)]
         ELSE IF r.err \in CaughtErrors THEN [raised |-> "", value |-> PyNone]
         ELSE [raised |-> r.err, value |-> PyNone]

\* the `user` relationship of an assignment: not loaded (None), or a User
NoRef == [kind |-> "none", id |-> PyNone]
Ref(id) == [kind |-> "obj", id |-> id]

\* the job argument: None, or an object that may carry an `assigned` list
NoJob == [kind |-> "none", has_assigned |-> FALSE, assigned |-> <<>>]
JobOf(entries) == [kind |-> "obj", has_assigned |-> TRUE, assigned |-> entries]
JobWithoutAssigned == [kind |-> "obj", has_assigned |-> FALSE, assigned |-> <<>>]

\* a variant that looks at the user relationship before the user_id column
EntryUid_RefFirst(entry) ==
    LET direct == IF entry.has_user_id THEN entry.user_id ELSE PyNone
        user_rel == IF entry.has_user THEN entry.user ELSE NoRef
        uid == IF user_rel.kind # "none" /\ user_rel.id.t # "none" THEN user_rel.id
               ELSE direct
    IN IF uid.t = "none" /\ entry.has_id /\ ~entry.has_user /\ ~entry.has_user_id
       THEN entry.id
       ELSE uid

\* a variant that takes the entry's own id whenever it found no user id
EntryUid_OwnIdWhenNone(entry) ==
    LET direct == IF entry.has_user_id THEN entry.user_id ELSE PyNone
        user_rel == IF entry.has_user THEN entry.user ELSE NoRef
        uid == IF direct.t # "none" THEN direct
               ELSE IF user_rel.kind # "none" THEN user_rel.id ELSE PyNone
    IN IF uid.t = "none" /\ entry.has_id THEN entry.id ELSE uid

\* lines 151-159: the value one entry of job.assigned yields for its user id
EntryUid(entry) ==
    LET direct == IF entry.has_user_id THEN entry.user_id ELSE PyNone
        user_rel == IF entry.has_user THEN entry.user ELSE NoRef
        uid == IF direct.t # "none" THEN direct
               ELSE IF user_rel.kind # "none" THEN user_rel.id ELSE PyNone
    IN IF uid.t = "none" /\ entry.has_id /\ ~entry.has_user /\ ~entry.has_user_id
       THEN entry.id
       ELSE uid

\* a variant whose try encloses the loop: the first malformed id ends it
RECURSIVE CollectAssigned_StopsAtMalformed(_, _)
CollectAssigned_StopsAtMalformed(assigned_ids, entries) ==
    IF entries = <<>> THEN [raised |-> "", ids |-> assigned_ids]
    ELSE LET uid == EntryUid(Head(entries)) IN
         IF uid.t = "none"
         THEN CollectAssigned_StopsAtMalformed(assigned_ids, Tail(entries))
         ELSE LET r == int(uid) IN
              IF r.err = ""
              THEN CollectAssigned_StopsAtMalformed(assigned_ids \cup {r.n},
                                                    Tail(entries))
              ELSE [raised |-> "", ids |-> assigned_ids]

\* lines 149-166: the loop over job.assigned, from the set collected so far
RECURSIVE CollectAssigned(_, _)
CollectAssigned(assigned_ids, entries) ==
    IF entries = <<>> THEN [raised |-> "", ids |-> assigned_ids]
    ELSE LET uid == EntryUid(Head(entries)) IN
         IF uid.t = "none" THEN CollectAssigned(assigned_ids, Tail(entries))
         ELSE LET r == int(uid) IN
              IF r.err = ""
              THEN CollectAssigned(assigned_ids \cup {r.n}, Tail(entries))
              ELSE IF r.err \in CaughtErrors
                   THEN CollectAssigned(assigned_ids, Tail(entries))
                   ELSE [raised |-> r.err, ids |-> assigned_ids]

_extract_assigned_user_ids(job_obj) ==
    IF job_obj.kind = "none" \/ ~job_obj.has_assigned \/ job_obj.assigned = <<>>
    THEN [raised |-> "", ids |-> {}]
    ELSE CollectAssigned({}, job_obj.assigned)

\* a variant without the supervisor shortcut
is_assigned_to_pm_AdminOnly(current_user, job_obj) ==
    IF is_admin(current_user)
    THEN [raised |-> "", value |-> TRUE]
    ELSE LET user_id == _safe_user_id(current_user) IN
         IF user_id.raised # "" THEN [raised |-> user_id.raised, value |-> FALSE]
         ELSE IF user_id.value.t = "none" \/ job_obj.kind = "none"
              THEN [raised |-> "", value |-> FALSE]
              ELSE LET assigned_ids == _extract_assigned_user_ids(job_obj) IN
                   [raised |-> assigned_ids.raised,
                    value |-> assigned_ids.raised = ""
                              /\ user_id.value.n \in assigned_ids.ids]

is_assigned_to_pm(current_user, job_obj) ==
    IF is_admin(current_user) \/ is_supervisor(current_user)
    THEN [raised |-> "", value |-> TRUE]
    ELSE LET user_id == _safe_user_id(current_user) IN
         IF user_id.raised # "" THEN [raised |-> user_id.raised, value |-> FALSE]
         ELSE IF user_id.value.t = "none" \/ job_obj.kind = "none"
              THEN [raised |-> "", value |-> FALSE]
              ELSE LET assigned_ids == _extract_assigned_user_ids(job_obj) IN
                   [raised |-> assigned_ids.raised,
                    value |-> assigned_ids.raised = ""
                              /\ user_id.value.n \in assigned_ids.ids]

\* a variant in which a supervisor of a workshop job must be assigned to it
is_assigned_to_workshop_NoSupervisor(current_user, job_obj) ==
    IF is_admin(current_user)
    THEN [raised |-> "", value |-> TRUE]
    ELSE LET user_id == _safe_user_id(current_user) IN
         IF user_id.raised # "" THEN [raised |-> user_id.raised, value |-> FALSE]
         ELSE IF user_id.value.t = "none" \/ job_obj.kind = "none"
              THEN [raised |-> "", value |-> FALSE]
              ELSE LET assigned_ids == _extract_assigned_user_ids(job_obj) IN
                   [raised |-> assigned_ids.raised,
                    value |-> assigned_ids.raised = ""
                              /\ user_id.value.n \in assigned_ids.ids]

is_assigned_to_workshop(current_user, job_obj) ==
    IF is_admin(current_user) \/ is_supervisor(current_user)
    THEN [raised |-> "", value |-> TRUE]
    ELSE LET user_id == _safe_user_id(current_user) IN
         IF user_id.raised # "" THEN [raised |-> user_id.raised, value |-> FALSE]
         ELSE IF user_id.value.t = "none" \/ job_obj.kind = "none"
              THEN [raised |-> "", value |-> FALSE]
              ELSE LET assigned_ids == _extract_assigned_user_ids(job_obj) IN
                   [raised |-> assigned_ids.raised,
                    value |-> assigned_ids.raised = ""
                              /\ user_id.value.n \in assigned_ids.ids]

----------------------------------------------------------------------------
(* app/routes/auth.py: the session table *)

\* secrets.token_hex(16): an opaque random string
Tokens == {<<"tok", i>> : i \in 1..NumTokens}
\* the values a session_token cookie can carry: no cookie, an empty one, a token
NoCookie == <<"none", 0>>
EmptyCookie == <<"empty", 0>>
Cookies == {NoCookie, EmptyCookie} \cup Tokens

\* Python truthiness of Optional[str]: None and "" are falsy
Falsy(cookie) == cookie \in {NoCookie, EmptyCookie}

DictSet(d, k, v) == [x \in (DOMAIN d) \cup {k} |-> IF x = k THEN v ELSE d[x]]
DictDel(d, k) == [x \in (DOMAIN d) \ {k} |-> d[x]]
EmptyDict == [x \in {} |-> 0]

hash_password(password) == <<"sha256", password>>

\* a variant that takes any password for the right one
verify_password_AcceptsAll(plain_password, hashed_password) == TRUE

verify_password(plain_password, hashed_password) ==
    hash_password(plain_password) = hashed_password

\* timedelta(days=...) in seconds, the unit of a cookie's max_age
SecondsIn(days) == days * 24 * 60 * 60

\* a variant whose sessions expire at the moment they are created
NewSession_NoLifetime(user_id, role, name, email, t) ==
    [user_id |-> user_id, role |-> role, name |-> name, email |-> email,
     expiry |-> t]

\* the record create_session stores under the token it drew
NewSession(user_id, role, name, email, t) ==
    [user_id |-> user_id, role |-> role, name |-> name, email |-> email,
     expiry |-> t + SessionTTL]

\* a variant that stores the record under another token than the one it returns
create_session_OtherKey(tbl, token, user_id, role, name, email, t) ==
    DictSet(tbl, CHOOSE tk \in Tokens : tk # token,
            NewSession(user_id, role, name, email, t))

\* a variant that ends the user's earlier sessions when a new one is created
create_session_OnePerUser(tbl, token, user_id, role, name, email, t) ==
    DictSet([x \in {k \in DOMAIN tbl : tbl[k].user_id # user_id} |-> tbl[x]],
            token, NewSession(user_id, role, name, email, t))

\* a variant that keeps the record a token already has
create_session_KeepFirst(tbl, token, user_id, role, name, email, t) ==
    IF token \in DOMAIN tbl THEN tbl
    ELSE DictSet(tbl, token, NewSession(user_id, role, name, email, t))

create_session(tbl, token, user_id, role, name, email, t) ==
    DictSet(tbl, token, NewSession(user_id, role, name, email, t))

\* session["expiry"] < datetime.now()
IsExpired(sess, t) == sess["expiry"] < t

\* the row db.query(User).filter(User.id == id).first() returns, as a set
UserById(tbl, id) == IF id \in DOMAIN tbl THEN {tbl[id]} ELSE {}

\* auth.get_current_user: the table it leaves and the user row it returns
auth_get_current_user(tbl, cookie, usertbl, t) ==
    IF Falsy(cookie) \/ cookie \notin DOMAIN tbl
    THEN [sessions |-> tbl, found |-> FALSE, user |-> {}]
    ELSE IF IsExpired(tbl[cookie], t)
         THEN [sessions |-> DictDel(tbl, cookie), found |-> FALSE, user |-> {}]
         ELSE [sessions |-> tbl, found |-> TRUE,
               user |-> UserById(usertbl, tbl[cookie].user_id)]

\* a variant that ends every session of the user who logs out
logout_AllOfUser(tbl, cookie) ==
    IF ~Falsy(cookie) /\ cookie \in DOMAIN tbl
    THEN [x \in {k \in DOMAIN tbl : tbl[k].user_id # tbl[cookie].user_id} |-> tbl[x]]
    ELSE tbl

\* the table logout leaves
logout(tbl, cookie) ==
    IF ~Falsy(cookie) /\ cookie \in DOMAIN tbl THEN DictDel(tbl, cookie) ELSE tbl

----------------------------------------------------------------------------
(* Request paths, cut into the pieces the prefix lists end at *)

P_login == <<"/auth", "/login">>
P_logout == <<"/auth", "/logout">>
P_forgot == <<"/auth", "/forgot-password">>
P_reset == <<"/auth", "/reset-password", "/", "abc123">>
P_static == <<"/static", "/", "app.css">>
P_user_info == <<"/auth", "/user-info">>
P_healthz == <<"/healthz">>
P_root == <<"/">>
P_users == <<"/users", "/">>

Paths == {P_login, P_logout, P_forgot, P_reset, P_static,
          P_user_info, P_healthz, P_root, P_users}

L_login == "/auth/login"
L_home == "/"
L_none == ""

----------------------------------------------------------------------------
(* app/middleware.py *)

public_paths == {<<"/auth", "/login">>, <<"/auth", "/logout">>,
                 <<"/auth", "/forgot-password">>, <<"/static", "/">>}

reset_password_prefix == <<"/auth", "/reset-password", "/">>

admin_paths == {<<"/users">>}

\* a variant whose allowlist entry is the whole /auth prefix
IsPublic_AllAuth(path) ==
    \/ StartsWith(path, <<"/auth">>)
    \/ StartsWith(path, <<"/static", "/">>)

\* a variant without the second early return (the reset-password paths)
IsPublic_NoReset(path) == \E p \in public_paths : StartsWith(path, p)

\* the two early returns of require_auth that never look at the cookie
IsPublic(path) ==
    \/ \E p \in public_paths : StartsWith(path, p)
    \/ StartsWith(path, reset_password_prefix)

IsAdminPath(path) == \E p \in admin_paths : StartsWith(path, p)

\* a variant that fills name and email from each other's key
PrincipalOf_Swapped(sess) ==
    [kind |-> "dict", id |-> PyInt(sess["user_id"]), name |-> sess["email"],
     email |-> sess["name"], role |-> sess["role"]]

\* request.state.user as require_auth builds it from the session record
\* a variant that reads the role from the users table
PrincipalOf_FromDb(sess) ==
    [kind |-> "dict", id |-> PyInt(sess["user_id"]), name |-> sess["name"],
     email |-> sess["email"],
     role |-> IF sess["user_id"] \in DOMAIN users
              THEN users[sess["user_id"]].role ELSE PyNone]

PrincipalOf(sess) ==
    [kind |-> "dict", id |-> PyInt(sess["user_id"]), name |-> sess["name"],
     email |-> sess["email"], role |-> sess["role"]]

\* a variant that renews the session each time it is validated
require_auth_Sliding(path, cookie, tbl, t) ==
    IF IsPublic(path)
    THEN [decision |-> "public", sessions |-> tbl, user |-> NoUser]
    ELSE IF Falsy(cookie) \/ cookie \notin DOMAIN tbl
    THEN [decision |-> "login", sessions |-> tbl, user |-> NoUser]
    ELSE IF IsExpired(tbl[cookie], t)
    THEN [decision |-> "expired", sessions |-> DictDel(tbl, cookie), user |-> NoUser]
    ELSE [decision |-> "next",
          sessions |-> [tbl EXCEPT ![cookie].expiry = t + SessionTTL],
          user |-> PrincipalOf(tbl[cookie])]

\* require_auth: what it decides, the table it leaves, request.state.user
require_auth(path, cookie, tbl, t) ==
    IF IsPublic(path)
    THEN [decision |-> "public", sessions |-> tbl, user |-> NoUser]
    ELSE IF Falsy(cookie) \/ cookie \notin DOMAIN tbl
    THEN [decision |-> "login", sessions |-> tbl, user |-> NoUser]
    ELSE IF IsExpired(tbl[cookie], t)
    THEN [decision |-> "expired", sessions |-> DictDel(tbl, cookie), user |-> NoUser]
    ELSE [decision |-> "next", sessions |-> tbl, user |-> PrincipalOf(tbl[cookie])]

\* a variant that lets every known session through, whatever its role
admin_only_NoRoleTest(path, cookie, tbl) ==
    IF ~IsAdminPath(path) THEN "skip"
    ELSE IF Falsy(cookie) \/ cookie \notin DOMAIN tbl THEN "login"
    ELSE "next"

\* admin_only: what it decides (it never writes the table)
admin_only(path, cookie, tbl) ==
    IF ~IsAdminPath(path) THEN "skip"
    ELSE IF Falsy(cookie) \/ cookie \notin DOMAIN tbl THEN "login"
    ELSE IF tbl[cookie]["role"] # PyStr(S_admin) THEN "home"
    ELSE "next"

----------------------------------------------------------------------------
(* main.py: the middleware stack.  @app.middleware("http") puts each new   *)
(* middleware outside the ones registered before it, so admin_middleware   *)
(* (registered last of the two) sees the request before auth_middleware.   *)

Gate(path, cookie, tbl, t) ==
    LET a == admin_only(path, cookie, tbl) IN
    IF a = "login"
    THEN [admin_only |-> a, require_auth |-> "notrun", sessions |-> tbl,
          user |-> NoUser, reached |-> FALSE,
          status |-> HTTP_303_SEE_OTHER, location |-> L_login]
    ELSE IF a = "home"
    THEN [admin_only |-> a, require_auth |-> "notrun", sessions |-> tbl,
          user |-> NoUser, reached |-> FALSE,
          status |-> HTTP_303_SEE_OTHER, location |-> L_home]
    ELSE LET r == require_auth(path, cookie, tbl, t) IN
         IF r.decision \in {"login", "expired"}
         THEN [admin_only |-> a, require_auth |-> r.decision, sessions |-> r.sessions,
               user |-> NoUser, reached |-> FALSE,
               status |-> HTTP_303_SEE_OTHER, location |-> L_login]
         ELSE [admin_only |-> a, require_auth |-> r.decision, sessions |-> r.sessions,
               user |-> r.user, reached |-> TRUE,
               status |-> 0, location |-> L_none]

----------------------------------------------------------------------------
(* main.py, app/routes: the route a GET request that passed the gate reaches *)

RouteGET(path) ==
    CASE path = P_root -> "list_forklifts"
      [] path = P_healthz -> "healthz"
      [] path = P_login -> "login_page"
      [] path = P_logout -> "logout"
      [] path = P_forgot -> "forgot_password_page"
      [] path = P_user_info -> "user_info"
      [] path = P_users -> "list_users"
      [] StartsWith(path, reset_password_prefix) /\ Len(path) = 4 -> "reset_password_page"
      [] StartsWith(path, <<"/static", "/">>) -> "static"
      [] OTHER -> "not_found"

\* users.py: require_admin, the dependency of every route of the users router
require_admin(state_user) ==
    LET cu == authz_get_current_user(state_user) IN
    IF cu.raised # 0 THEN cu.raised
    ELSE IF ~is_admin(cu.user) THEN HTTP_403_FORBIDDEN
    ELSE 0

\* what the handler of a GET route does: the table it leaves, the response
HandlerGET(h, state_user, cookie, tbl, usertbl, t) ==
    CASE h = "none" ->
           [sessions |-> tbl, ran |-> "none", status |-> 0, location |-> L_none, info |-> {}]
      [] h = "logout" ->
           [sessions |-> logout(tbl, cookie), ran |-> h,
            status |-> HTTP_303_SEE_OTHER, location |-> L_login, info |-> {}]
      [] h = "user_info" ->
           LET u == auth_get_current_user(tbl, cookie, usertbl, t) IN
           [sessions |-> u.sessions, ran |-> h,
            status |-> IF u.user = {} THEN HTTP_401_UNAUTHORIZED ELSE HTTP_200_OK,
            location |-> L_none, info |-> u.user]
      [] h = "list_users" ->
           LET denied == require_admin(state_user) IN
           IF denied # 0
           THEN [sessions |-> tbl, ran |-> "none", status |-> denied,
                 location |-> L_none, info |-> {}]
           ELSE [sessions |-> tbl, ran |-> h, status |-> HTTP_200_OK,
                 location |-> L_none, info |-> {}]
      [] h = "not_found" ->
           [sessions |-> tbl, ran |-> "none", status |-> HTTP_404_NOT_FOUND,
            location |-> L_none, info |-> {}]
      [] OTHER ->
           [sessions |-> tbl, ran |-> h, status |-> HTTP_200_OK,
            location |-> L_none, info |-> {}]

\* the session the table holds for a cookie when the request arrives, as a set
Found(tbl, cookie) == IF cookie \in DOMAIN tbl THEN {tbl[cookie]} ELSE {}

\* the first row with this email, as a set of ids
UserByEmail(usertbl, email) ==
    LET ids == {i \in DOMAIN usertbl : usertbl[i].email = email} IN
    IF ids = {} THEN {} ELSE {CHOOSE i \in ids : \A j \in ids : i <= j}

----------------------------------------------------------------------------
(* The state machine, one request at a time *)

NoRequest ==
    [op |-> "none", path |-> <<>>, cookie |-> NoCookie, t |-> 0, found |-> {},
     admin_only |-> "notrun", require_auth |-> "notrun", gate_wrote |-> FALSE,
     reached |-> FALSE, handler |-> "none", status |-> 0, location |-> L_none,
     user |-> NoUser, info |-> {}, token |-> NoCookie, created |-> {}, fresh |-> {},
     id |-> 0, max_age |-> 0]

\* create_admin.py: the row the installation script inserts
AdminRow ==
    [id |-> 1, name |-> "Admin", email |-> "rey@admin123.com",
     password |-> hash_password("nimda123"), role |-> PyStr(S_admin)]

\* rows as create_user inserts them (name, email, password and role are form fields)
UserRows ==
    {AdminRow,
     [id |-> 2, name |-> "Budi", email |-> "budi@example.com",
      password |-> hash_password("rahasia"), role |-> PyStr(S_teknisi)],
     [id |-> 3, name |-> "Siti", email |-> "siti@example.com",
      password |-> hash_password("rahasia"), role |-> PyStr(S_supervisor)],
     [id |-> 4, name |-> "Agus", email |-> "agus@example.com",
      password |-> hash_password("rahasia"), role |-> PyStr(S_Admin)],
     [id |-> 5, name |-> "Dewi", email |-> "dewi@example.com",
      password |-> hash_password("rahasia"), role |-> PyStr(S_admin_padded)]}

\* the users table holding exactly this row
TableOf(row) == [i \in {row.id} |-> row]

Emails == {row.email : row \in UserRows} \cup {"nobody@example.com"}
Passwords == {"nimda123", "rahasia"}

\* nothing has been applied, the job tables are empty
NoRet == [fn |-> "none", raised |-> "", value |-> FALSE, ids |-> {}, uid |-> PyNone]

EmptyDb ==
    [forklifts |-> {}, pm_jobs |-> {}, pm_job_assignments |-> {}, workshop_jobs |-> {},
     workshop_job_assignments |-> {}, workshop_job_items |-> {}]

DataInit ==
    /\ principal = NoUser
    /\ job = NoJob
    /\ ret = NoRet
    /\ db = EmptyDb

\* no session operation is in flight
ConcInit ==
    /\ pc = [p \in 1..NumProcs |-> "idle"]
    /\ op = [p \in 1..NumProcs |-> "none"]
    /\ session = [p \in 1..NumProcs |-> {}]
    /\ result = [p \in 1..NumProcs |-> "none"]

Init ==
    /\ active_sessions = EmptyDict
    /\ \E row \in UserRows : users = TableOf(row)
    /\ now = 0
    /\ issued = {}
    /\ last = NoRequest
    /\ ConcInit
    /\ DataInit

\* time passes between two requests
Tick ==
    /\ now < MaxTime
    /\ now' = now + 1
    /\ last' = NoRequest
    /\ UNCHANGED <<active_sessions, users, issued, concVars, dataVars>>

\* GET path, through both middlewares and on to the route's handler
GetRequest(path, cookie) ==
    \E g \in {Gate(path, cookie, active_sessions, now)} :
    \E out \in {HandlerGET(IF g.reached THEN RouteGET(path) ELSE "none",
                            g.user, cookie, g.sessions, users, now)} :
       /\ active_sessions' = out.sessions
       /\ last' = [op |-> "request", path |-> path, cookie |-> cookie, t |-> now,
                   found |-> Found(active_sessions, cookie),
                   admin_only |-> g.admin_only, require_auth |-> g.require_auth,
                   gate_wrote |-> (g.sessions # active_sessions),
                   reached |-> g.reached, handler |-> out.ran,
                   status |-> IF g.reached THEN out.status ELSE g.status,
                   location |-> IF g.reached THEN out.location ELSE g.location,
                   user |-> g.user, info |-> out.info, token |-> NoCookie,
                   created |-> {},
                   fresh |-> IF last.op = "login" /\ last.token = cookie /\ last.t = now
                             THEN last.created ELSE {},
                   id |-> 0, max_age |-> 0]
       /\ UNCHANGED <<users, now, issued, concVars, dataVars>>

\* POST /auth/login: the login handler, reached through the public allowlist
LoginRequest(email, password) ==
    \E g \in {Gate(P_login, NoCookie, active_sessions, now)} :
    LET cookie == NoCookie
        ids == UserByEmail(users, email)
        ok == /\ ids # {}
              /\ \A i \in ids : verify_password(password, users[i].password)
        base == [NoRequest EXCEPT !.op = "login", !.path = P_login, !.cookie = cookie,
                   !.t = now, !.found = Found(active_sessions, cookie),
                   !.admin_only = g.admin_only, !.require_auth = g.require_auth,
                   !.gate_wrote = (g.sessions # active_sessions),
                   !.reached = g.reached, !.handler = "login", !.user = g.user]
    IN /\ g.reached
       /\ IF ~ok
          THEN /\ active_sessions' = g.sessions
               /\ issued' = issued
               /\ last' = [base EXCEPT !.status = HTTP_200_OK]
          ELSE \E token \in Tokens : \E i \in ids :
               /\ active_sessions' =
                      create_session(g.sessions, token, i, users[i].role,
                                     users[i].name, users[i].email, now)
               /\ issued' = issued \cup {token}
               /\ last' = [base EXCEPT !.status = HTTP_303_SEE_OTHER,
                             !.location = L_home, !.token = token,
                             !.max_age = max_age,
                             !.created = {[user_id |-> i, role |-> users[i].role,
                                           name |-> users[i].name,
                                           email |-> users[i].email]}]
       /\ UNCHANGED <<users, now, concVars, dataVars>>

Next ==
    \/ Tick
    \/ \E path \in Paths, cookie \in Cookies : GetRequest(path, cookie)
    \/ \E email \in Emails, password \in Passwords : LoginRequest(email, password)

Spec == Init /\ [][Next]_vars

----------------------------------------------------------------------------
(* The session operations statement by statement.  The middlewares are     *)
(* coroutines of the event loop: between two awaits nothing else runs on   *)
(* the loop.  logout and auth.get_current_user are plain `def`s, which     *)
(* FastAPI runs on worker threads; a thread switch can fall between any    *)
(* two statements of theirs, and between any two statements of the loop.   *)
(* Nothing in the code locks active_sessions.                              *)

Procs == 1..NumProcs

\* the token every operation of SpecConc is about
Tok == <<"tok", 1>>

LoopOps == {"require_auth", "admin_only"}
ThreadOps == {"get_current_user", "logout"}

\* p's coroutine is between its first statement and its return
InLoopSection(p) == op[p] \in LoopOps /\ pc[p] \in {"read", "expiry", "del"}

\* the event loop is free for p to run a statement on it
LoopFree(p) == \A q \in Procs \ {p} : ~InLoopSection(q)

CanStep(p, o, at) ==
    /\ op[p] = o
    /\ pc[p] = at
    /\ (o \in LoopOps => LoopFree(p))

Goto(p, at) ==
    /\ pc' = [pc EXCEPT ![p] = at]
    /\ UNCHANGED <<result, op>>

Return(p, r) ==
    /\ pc' = [pc EXCEPT ![p] = "done"]
    /\ result' = [result EXCEPT ![p] = r]
    /\ UNCHANGED op

ConcFrame == UNCHANGED <<users, issued, last, now, dataVars>>

\* `if not session_token or session_token not in active_sessions`
CheckPresent(p, o, absent) ==
    /\ CanStep(p, o, "check")
    /\ IF Tok \in DOMAIN active_sessions THEN Goto(p, "read") ELSE Return(p, absent)
    /\ UNCHANGED <<active_sessions, session>>
    /\ ConcFrame

\* `session = active_sessions[session_token]`
ReadSession(p, o) ==
    /\ CanStep(p, o, "read")
    /\ IF Tok \in DOMAIN active_sessions
       THEN /\ session' = [session EXCEPT ![p] = {active_sessions[Tok]}]
            /\ Goto(p, "expiry")
       ELSE /\ Return(p, "KeyError")
            /\ UNCHANGED session
    /\ UNCHANGED active_sessions
    /\ ConcFrame

\* `if session["expiry"] < datetime.now()`
TestExpiry(p, o) ==
    /\ CanStep(p, o, "expiry")
    /\ IF \E sess \in session[p] : IsExpired(sess, now)
       THEN Goto(p, "del") ELSE Return(p, "present")
    /\ UNCHANGED <<active_sessions, session>>
    /\ ConcFrame

\* `del active_sessions[session_token]`
DelSession(p, o, r) ==
    /\ CanStep(p, o, "del")
    /\ IF Tok \in DOMAIN active_sessions
       THEN /\ active_sessions' = DictDel(active_sessions, Tok)
            /\ Return(p, r)
       ELSE /\ Return(p, "KeyError")
            /\ UNCHANGED active_sessions
    /\ UNCHANGED session
    /\ ConcFrame

\* a request arrives and process p is to run operation o on the token
Start(p, o) ==
    /\ pc[p] = "idle"
    /\ op' = [op EXCEPT ![p] = o]
    /\ pc' = [pc EXCEPT ![p] = "check"]
    /\ UNCHANGED <<active_sessions, session, result>>
    /\ ConcFrame

RequireAuthCheck(p) == CheckPresent(p, "require_auth", "absent")
RequireAuthRead(p) == ReadSession(p, "require_auth")
RequireAuthExpiry(p) == TestExpiry(p, "require_auth")
RequireAuthDel(p) == DelSession(p, "require_auth", "absent")

GetCurrentUserCheck(p) == CheckPresent(p, "get_current_user", "absent")
GetCurrentUserRead(p) == ReadSession(p, "get_current_user")
GetCurrentUserExpiry(p) == TestExpiry(p, "get_current_user")
GetCurrentUserDel(p) == DelSession(p, "get_current_user", "absent")

\* logout: `if session_token and session_token in active_sessions`, then the del
LogoutCheck(p) ==
    /\ CanStep(p, "logout", "check")
    /\ IF Tok \in DOMAIN active_sessions THEN Goto(p, "del") ELSE Return(p, "ok")
    /\ UNCHANGED <<active_sessions, session>>
    /\ ConcFrame

LogoutDel(p) == DelSession(p, "logout", "ok")

AdminOnlyCheck(p) == CheckPresent(p, "admin_only", "absent")

\* admin_only: `session = active_sessions[session_token]` and the role test
AdminOnlyRead(p) ==
    /\ CanStep(p, "admin_only", "read")
    /\ IF Tok \in DOMAIN active_sessions
       THEN Return(p, IF active_sessions[Tok]["role"] # PyStr(S_admin)
                      THEN "home" ELSE "next")
       ELSE Return(p, "KeyError")
    /\ UNCHANGED <<active_sessions, session>>
    /\ ConcFrame

ConcTick ==
    /\ now < MaxTime
    /\ now' = now + 1
    /\ UNCHANGED <<active_sessions, users, issued, last, concVars, dataVars>>

\* one session, as a login at time 0 leaves it
InitConc ==
    /\ users = TableOf(AdminRow)
    /\ active_sessions =
           create_session(EmptyDict, Tok, AdminRow.id, AdminRow.role,
                          AdminRow.name, AdminRow.email, 0)
    /\ now = 0
    /\ issued = {Tok}
    /\ last = NoRequest
    /\ ConcInit
    /\ DataInit

NextConc ==
    \/ ConcTick
    \/ \E p \in Procs, o \in LoopOps \cup ThreadOps : Start(p, o)
    \/ \E p \in Procs : RequireAuthCheck(p)
    \/ \E p \in Procs : RequireAuthRead(p)
    \/ \E p \in Procs : RequireAuthExpiry(p)
    \/ \E p \in Procs : RequireAuthDel(p)
    \/ \E p \in Procs : GetCurrentUserCheck(p)
    \/ \E p \in Procs : GetCurrentUserRead(p)
    \/ \E p \in Procs : GetCurrentUserExpiry(p)
    \/ \E p \in Procs : GetCurrentUserDel(p)
    \/ \E p \in Procs : LogoutCheck(p)
    \/ \E p \in Procs : LogoutDel(p)
    \/ \E p \in Procs : AdminOnlyCheck(p)
    \/ \E p \in Procs : AdminOnlyRead(p)

SpecConc == InitConc /\ [][NextConc]_vars

----------------------------------------------------------------------------
(* create_session called by several logins at once.  login is a plain     *)
(* `def`: each call runs on its own worker thread, and a thread switch can *)
(* fall between the draw of the token and the store into the table.  Time   *)
(* passes between two calls, not within the two statements of one.         *)

\* the users who log in
CreateCallers == {AdminRow, CHOOSE row \in UserRows : row.id = 2}

\* login calls create_session(user.id, user.role, user.name, user.email)
CreateStart(p, row) ==
    /\ pc[p] = "idle"
    /\ op' = [op EXCEPT ![p] = "create_session"]
    /\ pc' = [pc EXCEPT ![p] = "draw"]
    /\ session' = [session EXCEPT ![p] =
                       {[user_id |-> row.id, role |-> row.role, name |-> row.name,
                         email |-> row.email, token |-> NoCookie, t |-> 0]}]
    /\ UNCHANGED <<active_sessions, result>>
    /\ ConcFrame

\* `session_token = secrets.token_hex(16)` and `expiry = datetime.now() + ...`
CreateDraw(p, token) ==
    /\ CanStep(p, "create_session", "draw")
    /\ session' = [session EXCEPT ![p] =
                       {[l EXCEPT !.token = token, !.t = now] : l \in session[p]}]
    /\ Goto(p, "store")
    /\ UNCHANGED active_sessions
    /\ ConcFrame

\* `active_sessions[session_token] = {...}` and `return session_token`
CreateStore(p) ==
    /\ CanStep(p, "create_session", "store")
    /\ \E l \in session[p] :
          /\ active_sessions' = create_session(active_sessions, l.token, l.user_id,
                                                l.role, l.name, l.email, l.t)
          /\ issued' = issued \cup {l.token}
    /\ Return(p, "created")
    /\ UNCHANGED <<session, users, last, now, dataVars>>

InitCreate ==
    /\ users = [i \in {row.id : row \in CreateCallers} |->
                   CHOOSE row \in CreateCallers : row.id = i]
    /\ active_sessions = EmptyDict
    /\ now = 0
    /\ issued = {}
    /\ last = NoRequest
    /\ ConcInit
    /\ DataInit

NextCreate ==
    \/ \E p \in Procs, row \in CreateCallers : CreateStart(p, row)
    \/ \E p \in Procs, token \in Tokens : CreateDraw(p, token)
    \/ \E p \in Procs : CreateStore(p)
    \/ (\A p \in Procs : pc[p] \in {"idle", "done"}) /\ ConcTick

SpecCreate == InitCreate /\ [][NextCreate]_vars

----------------------------------------------------------------------------
(* The predicates of app/core/authz.py as functions of their arguments.    *)
(* The arguments are whatever a caller passes: None, a value that is no    *)
(* dict, a dict with any id and role; None, a job without `assigned`, a    *)
(* job with a list of assignment rows or of other objects.                 *)

Principals ==
    {NoUser, [NoUser EXCEPT !.kind = "other"]}
    \cup {[kind |-> "dict", id |-> i, name |-> "", email |-> "", role |-> r] :
            i \in {PyNone, PyInt(5), PyInt(6), PyStr(<<"5">>),
                   PyStr(<<"a", "b", "c">>), PyList},
            r \in {PyNone, PyInt(1), PyStr(S_admin), PyStr(S_Admin),
                   PyStr(S_admin_padded), PyStr(S_supervisor), PyStr(S_teknisi),
                   PyStr(S_user)}}

\* a PMJobAssignment / WorkshopJobAssignment row: it has the columns id and
\* user_id and the relationship user
AssignmentRow(id, user_id, user) ==
    [has_user_id |-> TRUE, user_id |-> user_id, has_user |-> TRUE, user |-> user,
     has_id |-> TRUE, id |-> PyInt(id)]

\* an object that has an id and neither user_id nor user; Entries has it
\* also with a user attribute, or a user_id attribute, that is None
IdOnly(id) ==
    [has_user_id |-> FALSE, user_id |-> PyNone, has_user |-> FALSE, user |-> NoRef,
     has_id |-> TRUE, id |-> id]

Entries ==
    {AssignmentRow(1, PyInt(5), Ref(PyInt(5))),
     AssignmentRow(2, PyInt(6), NoRef),
     AssignmentRow(3, PyNone, Ref(PyInt(9))),
     AssignmentRow(6, PyNone, NoRef),
     AssignmentRow(4, PyStr(<<"a", "b", "c">>), Ref(PyInt(9))),
     AssignmentRow(5, PyStr(<<" ", "5">>), NoRef),
     AssignmentRow(7, PyList, Ref(PyInt(6))),
     IdOnly(PyInt(6)),
     [IdOnly(PyInt(6)) EXCEPT !.has_user = TRUE],
     [IdOnly(PyInt(6)) EXCEPT !.has_user_id = TRUE]}

Jobs ==
    {NoJob, JobWithoutAssigned}
    \cup {JobOf(es) : es \in UNION {[1..n -> Entries] : n \in 0..MaxAssigned}}

InitAuthz ==
    /\ principal \in Principals
    /\ job \in Jobs
    /\ ret = NoRet
    /\ db = EmptyDb
    /\ active_sessions = EmptyDict
    /\ users = TableOf(AdminRow)
    /\ now = 0
    /\ issued = {}
    /\ last = NoRequest
    /\ ConcInit

AuthzFrame ==
    UNCHANGED <<active_sessions, users, now, issued, last, concVars, principal, job, db>>

\* is_admin, is_supervisor or is_user applied to the principal
ApplyRolePredicate(fn) ==
    /\ ret' = [NoRet EXCEPT !.fn = fn,
                  !.value = CASE fn = "is_admin" -> is_admin(principal)
                              [] fn = "is_supervisor" -> is_supervisor(principal)
                              [] fn = "is_user" -> is_user(principal)]
    /\ AuthzFrame

ApplySafeUserId ==
    /\ \E r \in {_safe_user_id(principal)} :
          ret' = [NoRet EXCEPT !.fn = "_safe_user_id", !.raised = r.raised,
                    !.uid = r.value]
    /\ AuthzFrame

ApplyExtractAssignedUserIds ==
    /\ \E r \in {_extract_assigned_user_ids(job)} :
          ret' = [NoRet EXCEPT !.fn = "_extract_assigned_user_ids",
                    !.raised = r.raised, !.ids = r.ids]
    /\ AuthzFrame

ApplyIsAssignedToPm ==
    /\ \E r \in {is_assigned_to_pm(principal, job)} :
          ret' = [NoRet EXCEPT !.fn = "is_assigned_to_pm", !.raised = r.raised,
                    !.value = r.value]
    /\ AuthzFrame

ApplyIsAssignedToWorkshop ==
    /\ \E r \in {is_assigned_to_workshop(principal, job)} :
          ret' = [NoRet EXCEPT !.fn = "is_assigned_to_workshop", !.raised = r.raised,
                    !.value = r.value]
    /\ AuthzFrame

NextAuthz ==
    \/ \E fn \in {"is_admin", "is_supervisor", "is_user"} : ApplyRolePredicate(fn)
    \/ ApplySafeUserId
    \/ ApplyExtractAssignedUserIds
    \/ ApplyIsAssignedToPm
    \/ ApplyIsAssignedToWorkshop

SpecAuthz == InitAuthz /\ [][NextAuthz]_vars

----------------------------------------------------------------------------
(* app/routes/pm_jobs.py and app/routes/workshop_jobs.py: the endpoints    *)
(* that act on one job.  Their paths are not public, so they run with the  *)
(* principal require_auth built from a live session.  A table is the set   *)
(* of its rows; dates are counted in days of the year 2025.                *)

\* the admin, a technician and the supervisor of UserRows, and a second technician
JobUsers ==
    {row \in UserRows : row.id <= 3}
    \cup {[id |-> 6, name |-> "Tono", email |-> "tono@example.com",
            password |-> hash_password("rahasia"), role |-> PyStr(S_teknisi)]}

\* request.state.user of a request that carries a live session of one of them
RequestUsers ==
    {PrincipalOf(NewSession(row.id, row.role, row.name, row.email, 0)) :
       row \in JobUsers}

\* the id an INTEGER PRIMARY KEY column gives the next row
NextRowId(rows) ==
    IF rows = {} THEN 1
    ELSE 1 + (CHOOSE m \in {r.id : r \in rows} : \A r \in rows : r.id <= m)

RECURSIVE RowsById(_)
RowsById(rows) ==
    IF rows = {} THEN <<>>
    ELSE LET first == CHOOSE x \in rows : \A y \in rows : x.id <= y.id
         IN <<first>> \o RowsById(rows \ {first})

\* db.query(Job).options(selectinload(assigned).joinedload(user))
\*   .filter(Job.id == id).first(): the rows found and the object handed to authz
LoadJob(job_rows, assignment_rows, usertbl, id) ==
    LET mine == RowsById({a \in assignment_rows : a.job_id = id}) IN
    [found |-> {j \in job_rows : j.id = id},
     obj |-> JobOf([i \in 1..Len(mine) |->
                      AssignmentRow(mine[i].id, PyInt(mine[i].user_id),
                                    IF mine[i].user_id \in DOMAIN usertbl
                                    THEN Ref(PyInt(mine[i].user_id)) ELSE NoRef)])]

\* datetime.strptime(date, "%Y-%m-%d") on the strings the forms carry
strptime(date) ==
    CASE date = "2025-01-10" -> [err |-> "", day |-> 10]
      [] date = "2025-02-09" -> [err |-> "", day |-> 40]
      [] OTHER -> [err |-> "ValueError", day |-> 0]

\* `for tid in technicians: db.add(Assignment(job_id=job.id, user_id=tid))`
RECURSIVE AddAssignments(_, _, _)
AddAssignments(rows, job_id, technicians) ==
    IF technicians = <<>> THEN rows
    ELSE AddAssignments(rows \cup {[id |-> NextRowId(rows), job_id |-> job_id,
                                     user_id |-> Head(technicians)]},
                        job_id, Tail(technicians))

\* `for name, q in zip(item_name, qty)`: a row per name that is not blank
RECURSIVE AddItems(_, _, _, _)
AddItems(rows, job_id, item_name, qty) ==
    IF item_name = <<>> \/ qty = <<>> THEN rows
    ELSE AddItems(IF Strip(Head(item_name)) # <<>>
                  THEN rows \cup {[id |-> NextRowId(rows), job_id |-> job_id,
                                    item_name |-> Head(item_name), qty |-> Head(qty)]}
                  ELSE rows,
                  job_id, Tail(item_name), Tail(qty))

\* the fields POST /pm/edit/{id} carries
PmForms ==
    {[forklift_id |-> 2, date |-> d.date, technicians |-> ts, report_no |-> "PM-2",
      job_desc |-> "ganti oli", recommendation |-> "", next_pm_option |-> d.option,
      next_pm_date |-> d.next] :
       d \in {[date |-> "2025-01-10", option |-> "1bulan", next |-> ""],
              [date |-> "2025-01-10", option |-> "", next |-> "2025-02-09"],
              [date |-> "10/01/2025", option |-> "", next |-> ""]},
       ts \in {<<>>, <<6>>, <<2, 6>>}}

\* the fields POST /workshop/edit/{id} carries
WorkshopForms ==
    {[forklift_id |-> 2, date |-> d, technicians |-> ts, report_no |-> "WS-2",
      job_desc |-> "ganti ban", notes |-> "", item_name |-> it.item_name,
      qty |-> it.qty] :
       d \in {"2025-01-10", "10/01/2025"},
       ts \in {<<>>, <<6>>, <<2, 6>>},
       it \in {[item_name |-> <<>>, qty |-> <<>>],
               [item_name |-> <<<<"b", "a", "n">>, <<" ">>>>, qty |-> <<4, 1>>]}}

\* the forklifts table (the columns the unique constraints are on)
ForkliftRows ==
    {[id |-> 1, eq_no |-> "FL-01", serial_number |-> "SN-01"],
     [id |-> 2, eq_no |-> "FL-02", serial_number |-> "SN-02"],
     [id |-> 3, eq_no |-> "FL-03", serial_number |-> "SN-03"]}

\* three forklifts; one PM job and one workshop job, each assigned to
\* technician 2
InitJobs ==
    /\ db = [forklifts |-> ForkliftRows,
             pm_jobs |-> {[id |-> 1, forklift_id |-> 1, date |-> 10,
                           report_no |-> "PM-1", job_desc |-> "servis",
                           recommendation |-> "", next_pm_date |-> {}]},
             pm_job_assignments |-> {[id |-> 1, job_id |-> 1, user_id |-> 2]},
             workshop_jobs |-> {[id |-> 1, forklift_id |-> 1, date |-> 10,
                                 report_no |-> "WS-1", job_desc |-> "rem",
                                 notes |-> ""]},
             workshop_job_assignments |-> {[id |-> 1, job_id |-> 1, user_id |-> 2]},
             workshop_job_items |-> {[id |-> 1, job_id |-> 1,
                                      item_name |-> <<"r", "e", "m">>, qty |-> 2]}]
    /\ users = [i \in {row.id : row \in JobUsers} |->
                   CHOOSE row \in JobUsers : row.id = i]
    /\ active_sessions = EmptyDict
    /\ now = 0
    /\ issued = {}
    /\ last = NoRequest
    /\ ConcInit
    /\ principal = NoUser
    /\ job = NoJob
    /\ ret = NoRet

\* the response of a job endpoint; the handler's other effects are on db
JobResponse(handler, id, state_user, status, location, info) ==
    /\ last' = [NoRequest EXCEPT !.op = "request", !.reached = TRUE,
                   !.require_auth = "next", !.admin_only = "skip",
                   !.handler = handler, !.id = id, !.user = state_user,
                   !.status = status, !.location = location, !.info = info]
    /\ UNCHANGED <<active_sessions, users, now, issued, concVars, principal, job, ret>>

\* GET /pm/delete/{id}
delete_pm_job(id, state_user) ==
    \E cu \in {authz_get_current_user(state_user)} :
    \E j \in {LoadJob(db.pm_jobs, db.pm_job_assignments, users, id)} :
       IF cu.raised # 0
       THEN /\ db' = db
            /\ JobResponse("delete_pm_job", id, state_user, cu.raised, L_none, {})
       ELSE IF j.found = {}
       THEN /\ db' = db
            /\ JobResponse("delete_pm_job", id, state_user, HTTP_303_SEE_OTHER, "/pm/", {})
       ELSE IF ~(is_admin(cu.user) \/ is_assigned_to_pm(cu.user, j.obj).value)
       THEN /\ db' = db
            /\ JobResponse("delete_pm_job", id, state_user, HTTP_403_FORBIDDEN,
                           L_none, {})
       ELSE /\ db' = [db EXCEPT
                        !.pm_job_assignments = {a \in @ : a.job_id # id},
                        !.pm_jobs = @ \ j.found]
            /\ JobResponse("delete_pm_job", id, state_user, HTTP_303_SEE_OTHER, "/pm/", {})

\* a variant that tests the assignment before it looks whether the job exists
edit_pm_job_form_AuthFirst(id, state_user) ==
    \E cu \in {authz_get_current_user(state_user)} :
    \E j \in {LoadJob(db.pm_jobs, db.pm_job_assignments, users, id)} :
       /\ db' = db
       /\ IF cu.raised # 0
          THEN JobResponse("edit_pm_job_form", id, state_user, cu.raised, L_none, {})
          ELSE IF ~(is_admin(cu.user)
                    \/ (j.found # {} /\ is_assigned_to_pm(cu.user, j.obj).value))
          THEN JobResponse("edit_pm_job_form", id, state_user, HTTP_403_FORBIDDEN,
                           L_none, {})
          ELSE IF j.found = {}
          THEN JobResponse("edit_pm_job_form", id, state_user, HTTP_303_SEE_OTHER,
                           "/pm/", {})
          ELSE JobResponse("edit_pm_job_form", id, state_user, HTTP_200_OK, L_none, {})

\* GET /pm/edit/{id}
edit_pm_job_form(id, state_user) ==
    \E cu \in {authz_get_current_user(state_user)} :
    \E j \in {LoadJob(db.pm_jobs, db.pm_job_assignments, users, id)} :
       /\ db' = db
       /\ IF cu.raised # 0
          THEN JobResponse("edit_pm_job_form", id, state_user, cu.raised, L_none, {})
          ELSE IF j.found = {}
          THEN JobResponse("edit_pm_job_form", id, state_user, HTTP_303_SEE_OTHER,
                           "/pm/", {})
          ELSE IF ~(is_admin(cu.user) \/ is_assigned_to_pm(cu.user, j.obj).value)
          THEN JobResponse("edit_pm_job_form", id, state_user, HTTP_403_FORBIDDEN,
                           L_none, {})
          ELSE JobResponse("edit_pm_job_form", id, state_user, HTTP_200_OK, L_none, {})

\* lines 181-192 of update_pm_job: computed_next_pm, or the error strptime raises
ComputedNextPm(day, next_pm_option, next_pm_date) ==
    LET given == strptime(next_pm_date) IN
    CASE next_pm_option = "1bulan" -> [err |-> "", date |-> {day + 30}]
      [] next_pm_option = "2bulan" -> [err |-> "", date |-> {day + 60}]
      [] next_pm_option = "3bulan" -> [err |-> "", date |-> {day + 90}]
      [] (next_pm_option \in {"", "date"}) /\ next_pm_date # "" ->
           [err |-> given.err, date |-> IF given.err = "" THEN {given.day} ELSE {}]
      [] OTHER -> [err |-> "", date |-> {}]

\* a variant that adds the technicians submitted to those already assigned
update_pm_job_KeepsOld(id, state_user, form) ==
    \E cu \in {authz_get_current_user(state_user)} :
    \E j \in {LoadJob(db.pm_jobs, db.pm_job_assignments, users, id)} :
    \E d \in {strptime(form.date)} :
    \E next \in {ComputedNextPm(d.day, form.next_pm_option, form.next_pm_date)} :
       IF cu.raised # 0
       THEN /\ db' = db
            /\ JobResponse("update_pm_job", id, state_user, cu.raised, L_none, {})
       ELSE IF j.found = {}
       THEN /\ db' = db
            /\ JobResponse("update_pm_job", id, state_user, HTTP_303_SEE_OTHER, "/pm/", {})
       ELSE IF ~(is_admin(cu.user) \/ is_assigned_to_pm(cu.user, j.obj).value)
       THEN /\ db' = db
            /\ JobResponse("update_pm_job", id, state_user, HTTP_403_FORBIDDEN,
                           L_none, {})
       ELSE IF d.err # "" \/ next.err # ""
       THEN /\ db' = db
            /\ JobResponse("update_pm_job", id, state_user,
                           HTTP_500_INTERNAL_SERVER_ERROR, L_none, {})
       ELSE /\ db' = [db EXCEPT
                        !.pm_jobs =
                            (@ \ j.found)
                            \cup {[jr EXCEPT !.forklift_id = form.forklift_id,
                                     !.date = d.day, !.report_no = form.report_no,
                                     !.job_desc = form.job_desc,
                                     !.recommendation = form.recommendation,
                                     !.next_pm_date = next.date] : jr \in j.found},
                        !.pm_job_assignments =
                            AddAssignments(@, id,
                                           form.technicians)]
            /\ JobResponse("update_pm_job", id, state_user, HTTP_303_SEE_OTHER, "/pm/", {})

\* POST /pm/edit/{id}
update_pm_job(id, state_user, form) ==
    \E cu \in {authz_get_current_user(state_user)} :
    \E j \in {LoadJob(db.pm_jobs, db.pm_job_assignments, users, id)} :
    \E d \in {strptime(form.date)} :
    \E next \in {ComputedNextPm(d.day, form.next_pm_option, form.next_pm_date)} :
       IF cu.raised # 0
       THEN /\ db' = db
            /\ JobResponse("update_pm_job", id, state_user, cu.raised, L_none, {})
       ELSE IF j.found = {}
       THEN /\ db' = db
            /\ JobResponse("update_pm_job", id, state_user, HTTP_303_SEE_OTHER, "/pm/", {})
       ELSE IF ~(is_admin(cu.user) \/ is_assigned_to_pm(cu.user, j.obj).value)
       THEN /\ db' = db
            /\ JobResponse("update_pm_job", id, state_user, HTTP_403_FORBIDDEN,
                           L_none, {})
       ELSE IF d.err # "" \/ next.err # ""
       THEN /\ db' = db
            /\ JobResponse("update_pm_job", id, state_user,
                           HTTP_500_INTERNAL_SERVER_ERROR, L_none, {})
       ELSE /\ db' = [db EXCEPT
                        !.pm_jobs =
                            (@ \ j.found)
                            \cup {[jr EXCEPT !.forklift_id = form.forklift_id,
                                     !.date = d.day, !.report_no = form.report_no,
                                     !.job_desc = form.job_desc,
                                     !.recommendation = form.recommendation,
                                     !.next_pm_date = next.date] : jr \in j.found},
                        !.pm_job_assignments =
                            AddAssignments({a \in @ : a.job_id # id}, id,
                                           form.technicians)]
            /\ JobResponse("update_pm_job", id, state_user, HTTP_303_SEE_OTHER, "/pm/", {})

\* a variant that deletes whatever job the request names
delete_workshop_job_NoCheck(id, state_user) ==
    \E cu \in {authz_get_current_user(state_user)} :
    \E j \in {LoadJob(db.workshop_jobs, db.workshop_job_assignments, users, id)} :
       IF cu.raised # 0
       THEN /\ db' = db
            /\ JobResponse("delete_workshop_job", id, state_user, cu.raised, L_none, {})
       ELSE /\ db' = [db EXCEPT
                        !.workshop_job_assignments = {a \in @ : a.job_id # id},
                        !.workshop_job_items = {it \in @ : it.job_id # id},
                        !.workshop_jobs = @ \ j.found]
            /\ JobResponse("delete_workshop_job", id, state_user, HTTP_303_SEE_OTHER,
                           "/workshop/", {})

\* GET /workshop/delete/{id}
delete_workshop_job(id, state_user) ==
    \E cu \in {authz_get_current_user(state_user)} :
    \E j \in {LoadJob(db.workshop_jobs, db.workshop_job_assignments, users, id)} :
       IF cu.raised # 0
       THEN /\ db' = db
            /\ JobResponse("delete_workshop_job", id, state_user, cu.raised, L_none, {})
       ELSE IF j.found = {}
       THEN /\ db' = db
            /\ JobResponse("delete_workshop_job", id, state_user, HTTP_303_SEE_OTHER,
                           "/workshop/", {})
       ELSE IF ~(is_admin(cu.user) \/ is_assigned_to_workshop(cu.user, j.obj).value)
       THEN /\ db' = db
            /\ JobResponse("delete_workshop_job", id, state_user, HTTP_403_FORBIDDEN,
                           L_none, {})
       ELSE /\ db' = [db EXCEPT
                        !.workshop_job_assignments = {a \in @ : a.job_id # id},
                        !.workshop_job_items = {it \in @ : it.job_id # id},
                        !.workshop_jobs = @ \ j.found]
            /\ JobResponse("delete_workshop_job", id, state_user, HTTP_303_SEE_OTHER,
                           "/workshop/", {})

\* GET /workshop/edit/{id}
edit_workshop_job_form(id, state_user) ==
    \E cu \in {authz_get_current_user(state_user)} :
    \E j \in {LoadJob(db.workshop_jobs, db.workshop_job_assignments, users, id)} :
       /\ db' = db
       /\ IF cu.raised # 0
          THEN JobResponse("edit_workshop_job_form", id, state_user, cu.raised,
                           L_none, {})
          ELSE IF j.found = {}
          THEN JobResponse("edit_workshop_job_form", id, state_user,
                           HTTP_303_SEE_OTHER, "/workshop/", {})
          ELSE IF ~(is_admin(cu.user) \/ is_assigned_to_workshop(cu.user, j.obj).value)
          THEN JobResponse("edit_workshop_job_form", id, state_user,
                           HTTP_403_FORBIDDEN, L_none, {})
          ELSE JobResponse("edit_workshop_job_form", id, state_user, HTTP_200_OK,
                           L_none, {})

\* a variant that commits an update without technicians
update_workshop_job_AllowsEmpty(id, state_user, form) ==
    \E cu \in {authz_get_current_user(state_user)} :
    \E j \in {LoadJob(db.workshop_jobs, db.workshop_job_assignments, users, id)} :
    \E d \in {strptime(form.date)} :
       IF cu.raised # 0
       THEN /\ db' = db
            /\ JobResponse("update_workshop_job", id, state_user, cu.raised, L_none, {})
       ELSE IF j.found = {}
       THEN /\ db' = db
            /\ JobResponse("update_workshop_job", id, state_user, HTTP_303_SEE_OTHER,
                           "/workshop/", {})
       ELSE IF ~(is_admin(cu.user) \/ is_assigned_to_workshop(cu.user, j.obj).value)
       THEN /\ db' = db
            /\ JobResponse("update_workshop_job", id, state_user, HTTP_403_FORBIDDEN,
                           L_none, {})
       ELSE IF d.err # ""
       THEN /\ db' = db
            /\ JobResponse("update_workshop_job", id, state_user,
                           HTTP_500_INTERNAL_SERVER_ERROR, L_none, {})
       ELSE /\ db' = [db EXCEPT
                        !.workshop_jobs =
                            (@ \ j.found)
                            \cup {[jr EXCEPT !.forklift_id = form.forklift_id,
                                     !.date = d.day, !.report_no = form.report_no,
                                     !.job_desc = form.job_desc,
                                     !.notes = form.notes] : jr \in j.found},
                        !.workshop_job_assignments =
                            AddAssignments({a \in @ : a.job_id # id}, id,
                                           form.technicians),
                        !.workshop_job_items =
                            AddItems({it \in @ : it.job_id # id}, id,
                                     form.item_name, form.qty)]
            /\ JobResponse("update_workshop_job", id, state_user, HTTP_303_SEE_OTHER,
                           "/workshop/", {})

\* POST /workshop/edit/{id}
update_workshop_job(id, state_user, form) ==
    \E cu \in {authz_get_current_user(state_user)} :
    \E j \in {LoadJob(db.workshop_jobs, db.workshop_job_assignments, users, id)} :
    \E d \in {strptime(form.date)} :
       IF cu.raised # 0
       THEN /\ db' = db
            /\ JobResponse("update_workshop_job", id, state_user, cu.raised, L_none, {})
       ELSE IF j.found = {}
       THEN /\ db' = db
            /\ JobResponse("update_workshop_job", id, state_user, HTTP_303_SEE_OTHER,
                           "/workshop/", {})
       ELSE IF ~(is_admin(cu.user) \/ is_assigned_to_workshop(cu.user, j.obj).value)
       THEN /\ db' = db
            /\ JobResponse("update_workshop_job", id, state_user, HTTP_403_FORBIDDEN,
                           L_none, {})
       ELSE IF form.technicians = <<>>
       THEN /\ db' = db
            /\ JobResponse("update_workshop_job", id, state_user, HTTP_200_OK, L_none,
                           {"Pilih minimal satu teknisi"})
       ELSE IF d.err # ""
       THEN /\ db' = db
            /\ JobResponse("update_workshop_job", id, state_user,
                           HTTP_500_INTERNAL_SERVER_ERROR, L_none, {})
       ELSE /\ db' = [db EXCEPT
                        !.workshop_jobs =
                            (@ \ j.found)
                            \cup {[jr EXCEPT !.forklift_id = form.forklift_id,
                                     !.date = d.day, !.report_no = form.report_no,
                                     !.job_desc = form.job_desc,
                                     !.notes = form.notes] : jr \in j.found},
                        !.workshop_job_assignments =
                            AddAssignments({a \in @ : a.job_id # id}, id,
                                           form.technicians),
                        !.workshop_job_items =
                            AddItems({it \in @ : it.job_id # id}, id,
                                     form.item_name, form.qty)]
            /\ JobResponse("update_workshop_job", id, state_user, HTTP_303_SEE_OTHER,
                           "/workshop/", {})

\* the ids requests name: 1, the job that exists at first, and 2, which never does
NextJobs ==
    \/ \E id \in {1, 2}, u \in RequestUsers : delete_pm_job(id, u)
    \/ \E id \in {1, 2}, u \in RequestUsers : edit_pm_job_form(id, u)
    \/ \E id \in {1, 2}, u \in RequestUsers, form \in PmForms :
          update_pm_job(id, u, form)
    \/ \E id \in {1, 2}, u \in RequestUsers : delete_workshop_job(id, u)
    \/ \E id \in {1, 2}, u \in RequestUsers : edit_workshop_job_form(id, u)
    \/ \E id \in {1, 2}, u \in RequestUsers, form \in WorkshopForms :
          update_workshop_job(id, u, form)

SpecJobs == InitJobs /\ [][NextJobs]_vars

----------------------------------------------------------------------------
(* app/routes/forklifts.py: the endpoints that delete forklifts.  Their    *)
(* paths are not public, so they too run with the principal of a live      *)
(* session.  The forklift row is not loaded with its jobs, the relations   *)
(* are passive_deletes and the connection does not turn foreign keys on:   *)
(* deleting a forklift writes the forklifts table only.                    *)

\* a variant that deletes for whoever asks
delete_bulk_NoCheck(ids, state_user) ==
    /\ db' = [db EXCEPT !.forklifts =
                 {f \in @ : \A i \in 1..Len(ids) : f.id # ids[i]}]
    /\ JobResponse("delete_bulk", 0, state_user, HTTP_303_SEE_OTHER, L_home,
                   {ids[i] : i \in 1..Len(ids)})

\* a variant that reserves the deletion of one forklift to supervisors
delete_one_SupervisorOnly(id, state_user) ==
    IF ~is_supervisor(state_user)
    THEN /\ db' = db
         /\ JobResponse("delete_one", id, state_user, HTTP_403_FORBIDDEN, L_none, {})
    ELSE /\ db' = [db EXCEPT !.forklifts = {f \in @ : f.id # id}]
         /\ JobResponse("delete_one", id, state_user, HTTP_303_SEE_OTHER, L_home, {})

\* POST /delete/{id}
delete_one(id, state_user) ==
    IF ~(is_admin(state_user) \/ is_supervisor(state_user))
    THEN /\ db' = db
         /\ JobResponse("delete_one", id, state_user, HTTP_403_FORBIDDEN, L_none, {})
    ELSE /\ db' = [db EXCEPT !.forklifts = {f \in @ : f.id # id}]
         /\ JobResponse("delete_one", id, state_user, HTTP_303_SEE_OTHER, L_home, {})

\* POST /delete_bulk; `ids` is the list the form carries (empty when the
\* field is missing); the response records the ids named
delete_bulk(ids, state_user) ==
    IF ~(is_admin(state_user) \/ is_supervisor(state_user))
    THEN /\ db' = db
         /\ JobResponse("delete_bulk", 0, state_user, HTTP_403_FORBIDDEN, L_none,
                        {ids[i] : i \in 1..Len(ids)})
    ELSE /\ db' = [db EXCEPT !.forklifts =
                      {f \in @ : \A i \in 1..Len(ids) : f.id # ids[i]}]
         /\ JobResponse("delete_bulk", 0, state_user, HTTP_303_SEE_OTHER, L_home,
                        {ids[i] : i \in 1..Len(ids)})

\* the ids requests name: forklifts that exist and 4, which never does
NextForklifts ==
    \/ \E id \in 1..4, u \in RequestUsers : delete_one(id, u)
    \/ \E ids \in {<<>>, <<1, 2>>, <<3, 4>>}, u \in RequestUsers :
          delete_bulk(ids, u)

SpecForklifts == InitJobs /\ [][NextForklifts]_vars

----------------------------------------------------------------------------
(* app/routes/users.py: the endpoints that delete and edit a user.  They   *)
(* are behind both middlewares and behind require_admin, the dependency of *)
(* the users router.                                                       *)

\* a request to the users router whose handler, if it runs, leaves `after`
UsersRequest(path, cookie, id, handler, after) ==
    \E g \in {Gate(path, cookie, active_sessions, now)} :
    \E denied \in {IF g.reached THEN require_admin(g.user) ELSE 0} :
       /\ active_sessions' = g.sessions
       /\ users' = IF g.reached /\ denied = 0 THEN after ELSE users
       /\ last' = [NoRequest EXCEPT !.op = "request", !.path = path,
                      !.cookie = cookie, !.t = now,
                      !.found = Found(active_sessions, cookie),
                      !.admin_only = g.admin_only, !.require_auth = g.require_auth,
                      !.gate_wrote = (g.sessions # active_sessions),
                      !.reached = g.reached,
                      !.handler = IF g.reached /\ denied = 0 THEN handler ELSE "none",
                      !.status = IF ~g.reached THEN g.status
                                 ELSE IF denied # 0 THEN denied
                                 ELSE HTTP_303_SEE_OTHER,
                      !.location = IF ~g.reached THEN g.location
                                   ELSE IF denied # 0 THEN L_none
                                   ELSE "/users/",
                      !.user = g.user, !.id = id]
       /\ UNCHANGED <<now, issued, concVars, dataVars>>

\* GET /users/delete/{id}
delete_user(id, cookie) ==
    UsersRequest(<<"/users", "/delete/">>, cookie, id, "delete_user",
                 IF id \in DOMAIN users THEN DictDel(users, id) ELSE users)

\* POST /users/edit/{id}
update_user(id, cookie, form) ==
    UsersRequest(<<"/users", "/edit/">>, cookie, id, "update_user",
                 IF id \in DOMAIN users
                 THEN [users EXCEPT ![id] =
                          [@ EXCEPT !.name = form.name, !.email = form.email,
                                    !.password = hash_password(form.password),
                                    !.role = form.role]]
                 ELSE users)

\* the installation's admin is the only user
InitUsers == Init /\ users = TableOf(AdminRow)

NextUsers ==
    \/ Tick
    \/ \E path \in {P_root, P_logout}, cookie \in Cookies : GetRequest(path, cookie)
    \/ \E password \in Passwords : LoginRequest(AdminRow.email, password)
    \/ \E id \in {1, 2}, cookie \in Cookies : delete_user(id, cookie)
    \/ \E id \in {1, 2}, cookie \in Cookies :
          update_user(id, cookie,
                      [name |-> AdminRow.name, email |-> AdminRow.email,
                       password |-> "rahasia", role |-> PyStr(S_teknisi)])

SpecUsers == InitUsers /\ [][NextUsers]_vars

----------------------------------------------------------------------------
(* The properties.  The path classes are those the specification names,    *)
(* not those the middleware computes.                                      *)

AllowlistedPaths == {P_login, P_logout, P_forgot, P_reset, P_static}
AdminGatedPaths == {P_users}
IsRequest == last.op \in {"request", "login"}
SentNoToken == last.cookie \in {NoCookie, EmptyCookie} \/ last.found = {}
RedirectedToLogin ==
    /\ last.status = HTTP_303_SEE_OTHER
    /\ last.location = L_login
    /\ last.handler = "none"
    /\ ~last.reached

\* C1: every session operation behaves as one atomic step: none that saw the
\* token present later fails to read or delete the entry because another
\* operation removed it in between (no KeyError on a half-removed entry).
C1_SessionOpsAtomic == \A p \in Procs : result[p] # "KeyError"

\* C2: a validation at a time t >= T (t = T included) of a session whose
\* expiry is T finds it absent and removes the entry from the table.
C2_AbsentFromExpiryOn ==
    (/\ last.op = "request"
     /\ last.require_auth \notin {"notrun", "public"}
     /\ \E s \in last.found : last.t >= s.expiry)
    => (/\ last.require_auth = "expired"
        /\ last.user = NoUser
        /\ last.cookie \notin DOMAIN active_sessions)

\* C3: a request to a non-public path, admin-gated ones included, that carries
\* the token of an expired session of whatever role removes the entry and is
\* answered with the redirect to the login path.
C3_ExpiredGoesToLogin ==
    (/\ last.op = "request"
     /\ last.path \notin AllowlistedPaths
     /\ \E s \in last.found : s.expiry < last.t)
    => (/\ last.cookie \notin DOMAIN active_sessions
        /\ RedirectedToLogin)

\* C4: a request to a non-public path whose cookie is missing or is no key of
\* the table gets 303 to /auth/login; no handler runs, no principal is attached.
C4_NoSessionGoesToLogin ==
    (IsRequest /\ last.path \notin AllowlistedPaths /\ SentNoToken)
    => (RedirectedToLogin /\ last.user = NoUser)

C4_Witness ==
    /\ last.op = "request"
    /\ last.path = P_user_info
    /\ last.cookie \in Tokens
    /\ last.found = {}
    /\ DOMAIN active_sessions # {}
    /\ last.status = HTTP_303_SEE_OTHER

\* C5: on an admin-gated prefix with a valid unexpired session, a role other
\* than admin is redirected to the application root and no handler runs; the
\* role admin reaches the user-management handler.
C5_AdminPrefixByRole ==
    \A s \in last.found :
        (last.op = "request" /\ last.path \in AdminGatedPaths /\ last.t < s.expiry)
        => IF s.role = PyStr(S_admin)
           THEN last.handler = "list_users" /\ last.status = HTTP_200_OK
           ELSE /\ last.status = HTTP_303_SEE_OTHER
                /\ last.location = L_home
                /\ last.handler = "none"

C5_Witness ==
    /\ last.op = "request"
    /\ last.path \in AdminGatedPaths
    /\ \E s \in last.found : last.t < s.expiry /\ s.role = PyStr(S_teknisi)
    /\ last.location = L_home

\* C6: on an admin-gated prefix the gate lets a valid session through exactly
\* when is_admin holds of the principal built from that session.
C6_GateRoleIsNormalized ==
    \A s \in last.found :
        (last.op = "request" /\ last.path \in AdminGatedPaths /\ last.t < s.expiry)
        => ((last.admin_only = "next") <=> is_admin(PrincipalOf(s)))

\* C7: a request to an allowlisted path goes to its handler with no identity
\* resolution: the gate takes the branches that never look at the table,
\* leaves the table as it is and attaches no principal, whatever the cookie.
C7_PublicPathsBypassGate ==
    (IsRequest /\ last.path \in AllowlistedPaths)
    => (/\ last.reached
        /\ last.handler # "none"
        /\ last.admin_only = "skip"
        /\ last.require_auth = "public"
        /\ ~last.gate_wrote
        /\ last.user = NoUser)

C7_Witness ==
    /\ last.op = "request"
    /\ last.path = P_reset
    /\ \E s \in last.found : s.expiry < last.t
    /\ last.cookie \in DOMAIN active_sessions
    /\ last.handler = "reset_password_page"

\* C8: a request to /healthz with no session cookie, or an unknown one,
\* reaches the health handler and is not redirected.
C8_HealthzIsPublic ==
    (last.op = "request" /\ last.path = P_healthz /\ SentNoToken)
    => (last.handler = "healthz" /\ last.status # HTTP_303_SEE_OTHER)

\* C9: the table holds only tokens create_session returned, and a request
\* carrying a token create_session never returned is not authenticated:
\* no principal, no user row, and on a non-public path the login redirect.
C9_UnissuedTokenIsAbsent ==
    /\ DOMAIN active_sessions \subseteq issued
    /\ (last.op = "request" /\ last.cookie \in Tokens \ issued)
       => (/\ last.user = NoUser
           /\ last.info = {}
           /\ last.admin_only # "next"
           /\ last.require_auth \notin {"next", "expired"}
           /\ (last.path \notin AllowlistedPaths => RedirectedToLogin))

C9_Witness ==
    /\ last.op = "request"
    /\ last.cookie \in Tokens \ issued
    /\ DOMAIN active_sessions # {}
    /\ last.path = P_user_info
    /\ last.status = HTTP_303_SEE_OTHER

\* C10: the validation that directly follows create_session, with the token
\* it returned, succeeds, and the principal carries the user id, role, name
\* and email create_session was called with.
C10_ValidateAfterCreate ==
    \A c \in last.fresh :
        (last.op = "request" /\ last.require_auth \notin {"notrun", "public"})
        => (/\ last.require_auth = "next"
            /\ last.user.kind = "dict"
            /\ last.user.id = PyInt(c.user_id)
            /\ last.user.role = c.role
            /\ last.user.name = c.name
            /\ last.user.email = c.email)

C10_Witness ==
    /\ last.op = "request"
    /\ last.path = P_root
    /\ last.fresh # {}
    /\ last.handler = "list_forklifts"
    /\ last.user.kind = "dict"

\* C11: logout answers with its redirect whether or not the cookie names a
\* session; it removes exactly that entry when the token is present and leaves
\* the table as it is when the token is absent or no cookie is sent; a second
\* logout changes nothing more; and from then on every validation of the
\* token finds it absent, at whatever time, until create_session returns that
\* token again.
C11_LogoutIdempotent ==
    [][/\ (last'.op = "request" /\ last'.handler = "logout")
          => LET c == last'.cookie IN
             /\ last'.status = HTTP_303_SEE_OTHER
             /\ last'.location = L_login
             /\ IF c \in DOMAIN active_sessions
                THEN active_sessions' =
                         [x \in (DOMAIN active_sessions) \ {c} |-> active_sessions[x]]
                ELSE active_sessions' = active_sessions
             /\ logout(active_sessions', c) = active_sessions'
             /\ \A t \in 0..MaxTime :
                   /\ require_auth(P_root, c, active_sessions', t).decision = "login"
                   /\ admin_only(P_users, c, active_sessions') = "login"
                   /\ ~auth_get_current_user(active_sessions', c, users, t).found
       /\ \A c \in Tokens :
             (c \notin DOMAIN active_sessions /\ c \in DOMAIN active_sessions')
             => (last'.op = "login" /\ last'.token = c)
      ]_vars

C11_Witness ==
    /\ last.op = "request"
    /\ last.handler = "logout"
    /\ last.found # {}
    /\ last.cookie \notin DOMAIN active_sessions
    /\ DOMAIN active_sessions # {}

Elevated == _normalized_role(principal) \in {S_admin, S_supervisor}

\* the principal is a record whose id is an integer or reads as one
IdRepresentable ==
    /\ principal.kind = "dict"
    /\ principal.id.t # "none"
    /\ int(principal.id).err = ""

AppliedIsAssignedTo == ret.fn \in {"is_assigned_to_pm", "is_assigned_to_workshop"}

\* C13: for every principal and every present job, is_assigned_to_pm and
\* is_assigned_to_workshop return true when the normalized role is admin or
\* supervisor (whatever the assignment list, the empty one included), and
\* otherwise true exactly when the principal's id, as an integer, is in the
\* set resolved from the job's assignments.
C13_IsAssignedTo ==
    (AppliedIsAssignedTo /\ job.kind # "none")
    => /\ ret.raised = ""
       /\ ret.value = IF Elevated THEN TRUE
                      ELSE /\ IdRepresentable
                           /\ int(principal.id).n
                                  \in _extract_assigned_user_ids(job).ids

C13_Witness ==
    /\ ret.fn = "is_assigned_to_pm"
    /\ principal.role = PyStr(S_supervisor)
    /\ principal.id = PyInt(6)
    /\ job = JobOf(<<AssignmentRow(1, PyInt(5), Ref(PyInt(5)))>>)
    /\ ret.value

C15_RolePredicatesFalse ==
    (ret.fn \in {"is_admin", "is_supervisor", "is_user"}
     /\ (principal.kind # "dict" \/ principal.role.t # "str"))
    => (ret.raised = "" /\ ~ret.value)

C15_Witness ==
    /\ ret.fn = "is_user"
    /\ principal.kind = "dict"
    /\ principal.role = PyInt(1)
    /\ principal.id = PyInt(5)
    /\ ~ret.value

AppliedResolver == ret.fn = "_extract_assigned_user_ids"

\* the value is present and int() converts it
Coercible(v) == v.t # "none" /\ int(v).err = ""

\* the value is present and int() raises on it
Malformed(v) == v.t # "none" /\ int(v).err # ""

\* the entry is an assignment record: it has a user-id field and a user field
IsAssignmentRecord(entry) == entry.has_user_id /\ entry.has_user

\* C16: an assignment whose direct user id is present but not
\* integer-coercible, and whose loaded user reference has id k, contributes k
\* to the resolved set.
C16_MalformedDirectFallsThrough ==
    AppliedResolver
    => \A i \in 1..Len(job.assigned) :
          LET entry == job.assigned[i] IN
          (/\ IsAssignmentRecord(entry)
           /\ Malformed(entry.user_id)
           /\ entry.user.kind = "obj"
           /\ Coercible(entry.user.id))
          => int(entry.user.id).n \in ret.ids

C18_MalformedIdIsSkipped ==
    AppliedResolver
    => /\ ret.raised = ""
       /\ \A i \in 1..Len(job.assigned) :
             IF Malformed(EntryUid(job.assigned[i]))
             THEN ret.ids =
                    _extract_assigned_user_ids(
                        JobOf([k \in 1..(Len(job.assigned) - 1) |->
                                 IF k < i THEN job.assigned[k]
                                 ELSE job.assigned[k + 1]])).ids
             ELSE Coercible(EntryUid(job.assigned[i]))
                  => int(EntryUid(job.assigned[i])).n \in ret.ids

C18_Witness ==
    /\ AppliedResolver
    /\ job = JobOf(<<AssignmentRow(4, PyStr(<<"a", "b", "c">>), Ref(PyInt(9))),
                     AssignmentRow(1, PyInt(5), Ref(PyInt(5)))>>)
    /\ ret.ids = {5}

PmJobHandlers == {"delete_pm_job", "edit_pm_job_form", "update_pm_job"}
WorkshopJobHandlers ==
    {"delete_workshop_job", "edit_workshop_job_form", "update_workshop_job"}

\* C19: a request to delete, open the edit form of, or update a PM job or a
\* workshop job that exists, made by an authenticated principal whose
\* normalized role is neither admin nor supervisor and whose id is the user
\* id of none of the job's assignment rows, is answered 403 and leaves the job
\* tables (jobs, assignments, items) as they were.
C19_JobMutationsRecheck ==
    [][LET assignments ==
               IF last'.handler \in PmJobHandlers
               THEN db.pm_job_assignments ELSE db.workshop_job_assignments
           jobs == IF last'.handler \in PmJobHandlers
                   THEN db.pm_jobs ELSE db.workshop_jobs
       IN (/\ last'.op = "request"
           /\ last'.handler \in PmJobHandlers \cup WorkshopJobHandlers
           /\ \E j \in jobs : j.id = last'.id
           /\ last'.user.kind = "dict"
           /\ _normalized_role(last'.user) \notin {S_admin, S_supervisor}
           /\ \A a \in assignments :
                 a.job_id = last'.id => PyInt(a.user_id) # last'.user.id)
          => (last'.status = HTTP_403_FORBIDDEN /\ db' = db)
      ]_vars

C19_Witness ==
    /\ last.handler = "update_pm_job"
    /\ last.status = HTTP_403_FORBIDDEN
    /\ last.user.id = PyInt(2)
    /\ \E a \in db.pm_job_assignments : a.job_id = last.id /\ a.user_id = 6
    /\ db.workshop_jobs = {}

\* C20: the principal a handler behind the gate runs with is the session
\* record's user_id, name, email and role and nothing else; a session record
\* stays as create_session stored it, and an edit or deletion of the user's
\* row changes no session; an entry leaves the table only by a logout with
\* its token or by a validation that finds it expired, so the token keeps
\* authenticating, with the same principal, whatever happens to the row.
C20_PrincipalIsSessionCache ==
    [][/\ (last'.op = "request" /\ last'.reached /\ last'.path \notin AllowlistedPaths)
          => /\ last'.found # {}
             /\ \A s \in last'.found :
                   last'.user = [kind |-> "dict", id |-> PyInt(s.user_id),
                                 name |-> s.name, email |-> s.email,
                                 role |-> s.role]
       /\ (users' # users => active_sessions' = active_sessions)
       /\ \A c \in DOMAIN active_sessions :
             IF c \in DOMAIN active_sessions'
             THEN \/ active_sessions'[c] = active_sessions[c]
                  \/ (last'.op = "login" /\ last'.token = c)
             ELSE /\ last'.cookie = c
                  /\ \/ last'.handler = "logout"
                     \/ IsExpired(active_sessions[c], now)
      ]_vars

C20_Witness ==
    /\ last.op = "request"
    /\ last.handler = "list_forklifts"
    /\ last.user.role = PyStr(S_admin)
    /\ users = EmptyDict

\* C21: every record of the table was stored with expiry = creation time +
\* 24 hours: its expiry is later than the time it was created at, the login
\* that stores it leaves it unexpired and valid, and the lifetime is the
\* max-age, in seconds, of the cookie the same login sets.
C21_ExpiryIsCreationPlusTTL ==
    [][/\ (last'.op = "login" /\ last'.created # {})
          => /\ last'.token \in DOMAIN active_sessions'
             /\ active_sessions'[last'.token].expiry = now + SessionTTL
             /\ active_sessions'[last'.token].expiry > now
             /\ ~IsExpired(active_sessions'[last'.token], now)
             /\ require_auth(P_root, last'.token, active_sessions', now).decision
                    = "next"
             /\ SecondsIn(active_sessions'[last'.token].expiry - now)
                    = last'.max_age
             /\ last'.max_age = 86400
       /\ \A c \in DOMAIN active_sessions' :
             /\ active_sessions'[c].expiry - SessionTTL \in 0..now'
             /\ (c \notin DOMAIN active_sessions
                 => active_sessions'[c].expiry > now')
      ]_vars

C21_Witness ==
    /\ last.op = "login"
    /\ last.t = 1
    /\ last.token \in DOMAIN active_sessions
    /\ active_sessions[last.token].expiry = 2
    /\ \E c \in DOMAIN active_sessions : active_sessions[c].expiry = 1
    /\ last.max_age = max_age

\* C22: on an admin-gated prefix the role check is evaluated only on a
\* session that has passed validation: when the check has been evaluated for
\* a request, the session of that request is present and not expired.
C22_RoleCheckAfterValidation ==
    (/\ last.op = "request"
     /\ last.path \in AdminGatedPaths
     /\ last.admin_only \in {"home", "next"})
    => (/\ last.found # {}
        /\ \A s \in last.found : ~(s.expiry < last.t))

\* C23: a step changes the session table in one of these ways only: a login
\* stores one record under the token it returns; a logout, or a validation
\* of an expired token, removes the entry of the request's own token.
\* Every other entry stays as it was, and a validation of an unexpired
\* token changes nothing, its expiry included.
C23_OnlyInsertAndTargetedRemoval ==
    [][/\ \/ active_sessions' = active_sessions
          \/ /\ last'.op = "login"
             /\ \E c \in last'.created :
                   active_sessions' =
                     [x \in (DOMAIN active_sessions) \cup {last'.token} |->
                        IF x = last'.token
                        THEN [user_id |-> c.user_id, role |-> c.role,
                              name |-> c.name, email |-> c.email,
                              expiry |-> now + SessionTTL]
                        ELSE active_sessions[x]]
          \/ /\ last'.op = "request"
             /\ last'.cookie \in DOMAIN active_sessions
             /\ active_sessions' =
                    [x \in (DOMAIN active_sessions) \ {last'.cookie} |->
                       active_sessions[x]]
             /\ \/ last'.handler = "logout"
                \/ active_sessions[last'.cookie].expiry <= now
       /\ (/\ last'.op = "request"
           /\ last'.handler # "logout"
           /\ last'.cookie \in DOMAIN active_sessions
           /\ now < active_sessions[last'.cookie].expiry)
          => active_sessions' = active_sessions
      ]_vars

C23_Witness ==
    /\ last.op = "request"
    /\ last.require_auth = "expired"
    /\ last.cookie \notin DOMAIN active_sessions
    /\ \E c \in DOMAIN active_sessions : active_sessions[c].expiry = last.t

\* C24: when create_session stores under a token that is already a key of
\* the table, the table keeps one record for that token and every other
\* entry; the record carries the new caller's user id, role, name and email
\* and an expiry counted from the new call; and a request presenting the
\* token before that expiry is given the new caller as its principal.
C24_CollisionOverwrites ==
    [][\A p \in Procs : \A l \in session[p] :
          (/\ op[p] = "create_session"
           /\ pc[p] = "store"
           /\ pc'[p] = "done"
           /\ l.token \in DOMAIN active_sessions)
          => /\ DOMAIN active_sessions' = DOMAIN active_sessions
             /\ \A c \in (DOMAIN active_sessions) \ {l.token} :
                   active_sessions'[c] = active_sessions[c]
             /\ active_sessions'[l.token] =
                    [user_id |-> l.user_id, role |-> l.role, name |-> l.name,
                     email |-> l.email, expiry |-> now + SessionTTL]
             /\ \A t \in 0..MaxTime :
                   t <= now + SessionTTL
                   => /\ require_auth(P_root, l.token, active_sessions', t).decision
                            = "next"
                      /\ require_auth(P_root, l.token, active_sessions', t).user
                            = [kind |-> "dict", id |-> PyInt(l.user_id),
                               name |-> l.name, email |-> l.email,
                               role |-> l.role]
      ]_vars

\* both calls have returned the same token; the record is the later caller's
C24_Witness ==
    /\ \A p \in {1, 2} : op[p] = "create_session" /\ pc[p] = "done"
    /\ \E l \in session[1], m \in session[2] :
          /\ l.token = m.token
          /\ l.user_id = 1 /\ l.t = 0
          /\ m.user_id = 2 /\ m.t = 1
          /\ DOMAIN active_sessions = {m.token}
          /\ active_sessions[m.token].user_id = 2
          /\ active_sessions[m.token].expiry = 2

\* the entry yields no user id from its user-id field or its user reference
NoIdFromFields(entry) ==
    /\ (entry.has_user_id => entry.user_id.t = "none")
    /\ (entry.has_user => (entry.user.kind = "none" \/ entry.user.id.t = "none"))

\* C25: an entry that yields no user id from its user-id field and user
\* reference contributes its own id exactly when it has an id field and has
\* neither a user-id field nor a user field; when it has one of the two
\* fields (an assignment row whose user_id and user are null) the resolved
\* set is the one the job resolves to without it, so its row id is never
\* taken for a user id.
C25_LastResortTier ==
    AppliedResolver
    => /\ \A i \in 1..Len(job.assigned) :
             LET entry == job.assigned[i] IN
             NoIdFromFields(entry)
             => IF entry.has_id /\ ~entry.has_user_id /\ ~entry.has_user
                THEN Coercible(entry.id) => int(entry.id).n \in ret.ids
                ELSE ret.ids =
                       _extract_assigned_user_ids(
                           JobOf([k \in 1..(Len(job.assigned) - 1) |->
                                    IF k < i THEN job.assigned[k]
                                    ELSE job.assigned[k + 1]])).ids
       /\ (job = JobOf(<<AssignmentRow(6, PyNone, NoRef)>>) => ret.ids = {})
       /\ (job = JobOf(<<IdOnly(PyInt(6))>>) => ret.ids = {6})

C25_Witness ==
    /\ AppliedResolver
    /\ job = JobOf(<<AssignmentRow(6, PyNone, NoRef), IdOnly(PyInt(6))>>)
    /\ ret.ids = {6}

\* C26: for every principal and every job value, is_assigned_to_pm and
\* is_assigned_to_workshop give the same result: what either returned is
\* what the other returns for the same arguments.
C26_KindAgnostic ==
    AppliedIsAssignedTo
    => /\ is_assigned_to_pm(principal, job) = is_assigned_to_workshop(principal, job)
       /\ ret.raised = (IF ret.fn = "is_assigned_to_pm"
                        THEN is_assigned_to_workshop(principal, job)
                        ELSE is_assigned_to_pm(principal, job)).raised
       /\ ret.value = (IF ret.fn = "is_assigned_to_pm"
                       THEN is_assigned_to_workshop(principal, job)
                       ELSE is_assigned_to_pm(principal, job)).value

C26_Witness ==
    /\ ret.fn = "is_assigned_to_workshop"
    /\ principal.role = PyStr(S_teknisi)
    /\ principal.id = PyStr(<<"5">>)
    /\ job = JobOf(<<AssignmentRow(5, PyStr(<<" ", "5">>), NoRef)>>)
    /\ ret.value
    /\ is_assigned_to_pm(principal, job).value

\* C29: deleting one forklift or several is answered 403, and deletes
\* nothing, for a principal that is neither admin nor supervisor, and also
\* when the request has no principal attached; for an admin or a supervisor
\* the forklifts named are deleted from the table and no others.
C29_ForkliftDeleteIs403Style ==
    [][/\ (last'.op = "request" /\ last'.handler \in {"delete_one", "delete_bulk"})
          => IF _normalized_role(last'.user) \in {S_admin, S_supervisor}
             THEN /\ last'.status = HTTP_303_SEE_OTHER
                  /\ db'.forklifts =
                       {f \in db.forklifts :
                          f.id \notin (IF last'.handler = "delete_one"
                                       THEN {last'.id} ELSE last'.info)}
             ELSE /\ last'.status = HTTP_403_FORBIDDEN
                  /\ db' = db
       /\ ~ENABLED (\E id \in 1..4 :
                      delete_one(id, NoUser) /\ last'.status # HTTP_403_FORBIDDEN)
       /\ ~ENABLED (delete_bulk(<<1, 2>>, NoUser) /\ db' # db)
      ]_vars

C29_Witness ==
    /\ last.handler = "delete_bulk"
    /\ last.user.role = PyStr(S_supervisor)
    /\ last.info = {3, 4}
    /\ {f.id : f \in db.forklifts} = {1}

\* the principal of a live session of user i with the given role
PrincipalWith(i, role) ==
    [kind |-> "dict", id |-> PyInt(i), name |-> "", email |-> "",
     role |-> PyStr(role)]

\* the gated operations
GatedOperations ==
    PmJobHandlers \cup WorkshopJobHandlers
    \cup {"delete_one", "delete_bulk", "list_users"}

\* in the current state the operation, asked for by u on the resource id, is
\* not refused: the endpoint does not answer 401 or 403, the gate of the
\* admin prefix lets the request through to the handler
Permitted(operation, id, u) ==
    CASE operation = "delete_pm_job" ->
           ENABLED (delete_pm_job(id, u) /\ last'.status # HTTP_403_FORBIDDEN)
      [] operation = "edit_pm_job_form" ->
           ENABLED (edit_pm_job_form(id, u) /\ last'.status # HTTP_403_FORBIDDEN)
      [] operation = "update_pm_job" ->
           ENABLED (\E form \in PmForms :
                      update_pm_job(id, u, form)
                      /\ last'.status # HTTP_403_FORBIDDEN)
      [] operation = "delete_workshop_job" ->
           ENABLED (delete_workshop_job(id, u)
                    /\ last'.status # HTTP_403_FORBIDDEN)
      [] operation = "edit_workshop_job_form" ->
           ENABLED (edit_workshop_job_form(id, u)
                    /\ last'.status # HTTP_403_FORBIDDEN)
      [] operation = "update_workshop_job" ->
           ENABLED (\E form \in WorkshopForms :
                      update_workshop_job(id, u, form)
                      /\ last'.status # HTTP_403_FORBIDDEN)
      [] operation = "delete_one" ->
           ENABLED (delete_one(id, u) /\ last'.status # HTTP_403_FORBIDDEN)
      [] operation = "delete_bulk" ->
           ENABLED (delete_bulk(<<id>>, u) /\ last'.status # HTTP_403_FORBIDDEN)
      [] operation = "list_users" ->
           LET g == Gate(P_users, Tok,
                         create_session(EmptyDict, Tok, u.id.n, u.role, u.name,
                                        u.email, now), now)
           IN g.reached /\ require_admin(g.user) = 0

\* C27: for every gated operation (the admin prefix, the six job endpoints,
\* the two forklift deletions), every state of the tables and every id: if
\* the operation is permitted to a teknisi with that id it is permitted to a
\* supervisor with that id, and if it is permitted to a supervisor it is
\* permitted to an admin.  The states looked at are the initial one and
\* those an admin's request leaves: the admin is never refused, so these
\* show every value the tables take (job 1 with each of its assignment
\* sets, and deleted); forklift 1 exists and forklift 4 does not.
C27_RoleMonotone ==
    (last.op = "none" \/ last.user.id = PyInt(AdminRow.id))
    => \A operation \in GatedOperations, i \in {2, 6} :
       \A id \in IF operation \in {"delete_one", "delete_bulk"}
                 THEN {1, 4} ELSE {1} :
          /\ Permitted(operation, id, PrincipalWith(i, S_teknisi))
             => Permitted(operation, id, PrincipalWith(i, S_supervisor))
          /\ Permitted(operation, id, PrincipalWith(i, S_supervisor))
             => Permitted(operation, id, PrincipalWith(i, S_admin))

\* technician 6 has been assigned to PM job 1 in the place of technician 2
C27_Witness ==
    /\ last.user.id = PyInt(AdminRow.id)
    /\ Permitted("update_pm_job", 1, PrincipalWith(6, S_teknisi))
    /\ ~Permitted("update_pm_job", 1, PrincipalWith(2, S_teknisi))
    /\ Permitted("update_pm_job", 1, PrincipalWith(2, S_supervisor))
    /\ ~Permitted("delete_one", 1, PrincipalWith(6, S_teknisi))
    /\ Permitted("delete_one", 1, PrincipalWith(6, S_supervisor))
    /\ ~Permitted("list_users", 1, PrincipalWith(6, S_supervisor))
    /\ Permitted("list_users", 1, PrincipalWith(6, S_admin))

\* the set _extract_assigned_user_ids gives for the job as a request loads it
ResolvedAssignees(job_rows, assignment_rows, id) ==
    _extract_assigned_user_ids(LoadJob(job_rows, assignment_rows, users, id).obj).ids

\* C28: when update_pm_job or update_workshop_job has committed, the
\* assignment rows of the job are those of the technicians submitted and no
\* others, and the job resolves to exactly that set (the empty set for a PM
\* update without technicians); an editor who is neither admin nor
\* supervisor and left out their own id is no longer assigned, and their
\* next request for that job is answered 403.
C28_UpdateReplacesAssignments ==
    [][/\ (/\ last'.handler = "update_pm_job"
           /\ last'.status = HTTP_303_SEE_OTHER
           /\ \E j \in db.pm_jobs : j.id = last'.id)
          => \A form \in PmForms :
                update_pm_job(last'.id, last'.user, form)
                => LET submitted == {form.technicians[k] :
                                       k \in 1..Len(form.technicians)}
                   IN /\ {a.user_id : a \in {x \in db'.pm_job_assignments :
                                                x.job_id = last'.id}} = submitted
                      /\ ResolvedAssignees(db'.pm_jobs, db'.pm_job_assignments,
                                           last'.id) = submitted
                      /\ (/\ ~is_admin(last'.user)
                          /\ ~is_supervisor(last'.user)
                          /\ last'.user.id.n \notin submitted)
                         => ~is_assigned_to_pm(
                                last'.user,
                                LoadJob(db'.pm_jobs, db'.pm_job_assignments,
                                        users, last'.id).obj).value
       /\ (/\ last'.handler = "update_workshop_job"
           /\ last'.status = HTTP_303_SEE_OTHER
           /\ \E j \in db.workshop_jobs : j.id = last'.id)
          => \A form \in WorkshopForms :
                update_workshop_job(last'.id, last'.user, form)
                => LET submitted == {form.technicians[k] :
                                       k \in 1..Len(form.technicians)}
                   IN /\ {a.user_id : a \in {x \in db'.workshop_job_assignments :
                                                x.job_id = last'.id}} = submitted
                      /\ ResolvedAssignees(db'.workshop_jobs,
                                           db'.workshop_job_assignments,
                                           last'.id) = submitted
                      /\ (/\ ~is_admin(last'.user)
                          /\ ~is_supervisor(last'.user)
                          /\ last'.user.id.n \notin submitted)
                         => ~is_assigned_to_workshop(
                                last'.user,
                                LoadJob(db'.workshop_jobs,
                                        db'.workshop_job_assignments,
                                        users, last'.id).obj).value
       /\ (/\ last.handler \in {"update_pm_job", "update_workshop_job"}
           /\ last.status = HTTP_303_SEE_OTHER
           /\ last'.user = last.user
           /\ last'.id = last.id
           /\ last'.handler \in (IF last.handler = "update_pm_job"
                                  THEN PmJobHandlers ELSE WorkshopJobHandlers)
           /\ \E j \in (IF last.handler = "update_pm_job"
                         THEN db.pm_jobs ELSE db.workshop_jobs) : j.id = last.id
           /\ ~is_admin(last.user)
           /\ ~is_supervisor(last.user)
           /\ \A a \in (IF last.handler = "update_pm_job"
                         THEN db.pm_job_assignments
                         ELSE db.workshop_job_assignments) :
                 a.job_id = last.id => a.user_id # last.user.id.n)
          => last'.status = HTTP_403_FORBIDDEN
      ]_vars

\* technician 2 handed PM job 1 over to technician 6 and is refused next
C28_Witness ==
    /\ last.handler = "edit_pm_job_form"
    /\ last.id = 1
    /\ last.user.id = PyInt(2)
    /\ last.status = HTTP_403_FORBIDDEN
    /\ {a.user_id : a \in db.pm_job_assignments} = {6}
    /\ {a.user_id : a \in db.workshop_job_assignments} = {2, 6}

\* C30: a login of a user who has a live session, returning a new token,
\* adds a second entry and leaves the earlier one as it was; each of the two
\* tokens authenticates the user while its own expiry has not come; and a
\* logout, or the expiry, of one token leaves the other entry in the table,
\* unchanged and still authenticating.
C30_SessionsOfOneUserAreIndependent ==
    [][/\ \A c \in DOMAIN active_sessions :
             (/\ last'.op = "login"
              /\ last'.token \notin DOMAIN active_sessions
              /\ \E n \in last'.created : n.user_id = active_sessions[c].user_id)
             => /\ DOMAIN active_sessions' = DOMAIN active_sessions \cup {last'.token}
                /\ active_sessions'[c] = active_sessions[c]
                /\ \A k \in {c, last'.token} : \A t \in 0..MaxTime :
                      t < active_sessions'[k].expiry
                      => /\ require_auth(P_root, k, active_sessions', t).decision
                               = "next"
                         /\ require_auth(P_root, k, active_sessions', t).user.id
                               = PyInt(active_sessions[c].user_id)
       /\ \A c, d \in DOMAIN active_sessions :
             (/\ c # d
              /\ last'.op = "request"
              /\ last'.cookie = c
              /\ active_sessions[c].user_id = active_sessions[d].user_id)
             => /\ d \in DOMAIN active_sessions'
                /\ active_sessions'[d] = active_sessions[d]
                /\ \A t \in 0..MaxTime :
                      t < active_sessions[d].expiry
                      => require_auth(P_root, d, active_sessions', t).user.id
                            = PyInt(active_sessions[d].user_id)
      ]_vars

\* the user logged in twice and has logged out of one of the two sessions
C30_Witness ==
    /\ last.op = "request"
    /\ last.handler = "logout"
    /\ last.cookie \notin DOMAIN active_sessions
    /\ \E s \in last.found : \E d \in DOMAIN active_sessions :
          /\ active_sessions[d].user_id = s.user_id
          /\ last.t < active_sessions[d].expiry
          /\ require_auth(P_root, d, active_sessions, last.t).decision = "next"

\* C31: a login with an email no user has, or with a password that is not
\* the user's, creates no session and sets no cookie: the session table and
\* the set of tokens handed out are as before, and the answer is the login
\* page, not the redirect.  (A login step either created nothing, or is the
\* step of no login with such an email or password.)
C31_FailedLoginCreatesNothing ==
    [][last'.op = "login"
       => \/ /\ active_sessions' = active_sessions
             /\ issued' = issued
             /\ last'.token = NoCookie
             /\ last'.max_age = 0
             /\ last'.status = HTTP_200_OK
          \/ ~\E email \in Emails, password \in Passwords :
                /\ \/ \A i \in DOMAIN users : users[i].email # email
                   \/ \E i \in DOMAIN users :
                         /\ users[i].email = email
                         /\ users[i].password # hash_password(password)
                /\ LoginRequest(email, password)
      ]_vars

\* a login has failed while another session was in the table
C31_Witness ==
    /\ last.op = "login"
    /\ last.status = HTTP_200_OK
    /\ last.token = NoCookie
    /\ DOMAIN active_sessions # {}
    /\ \A c \in DOMAIN active_sessions : active_sessions[c].expiry > last.t

\* C32: a request to delete, open the edit form of, or update a job whose
\* id no job has is answered, for every authenticated principal, assigned
\* to anything or not, with the see-other redirect to the list of jobs of
\* that kind, never with 403; no job, assignment or item row is changed.
C32_MissingJobRedirects ==
    [][(/\ last'.op = "request"
        /\ last'.handler \in PmJobHandlers \cup WorkshopJobHandlers
        /\ last'.user.kind = "dict"
        /\ \A j \in (IF last'.handler \in PmJobHandlers
                      THEN db.pm_jobs ELSE db.workshop_jobs) : j.id # last'.id)
       => /\ last'.status = HTTP_303_SEE_OTHER
          /\ last'.location = (IF last'.handler \in PmJobHandlers
                               THEN "/pm/" ELSE "/workshop/")
          /\ db' = db
      ]_vars

\* a technician asks to update workshop job 1 after it has been deleted
C32_Witness ==
    /\ last.handler = "update_workshop_job"
    /\ last.id = 1
    /\ last.user.role = PyStr(S_teknisi)
    /\ db.workshop_jobs = {}
    /\ db.pm_jobs # {}
    /\ last.status = HTTP_303_SEE_OTHER
    /\ last.location = "/workshop/"

\* C33: an update of an existing workshop job that carries no technician
\* is answered, when the principal may edit the job, with the edit form and
\* its error, and, when the principal may not, with 403; in both cases the
\* job's fields, assignments and items are as before.
C33_EmptyTechniciansRejected ==
    [][(/\ last'.handler = "update_workshop_job"
        /\ last'.user.kind = "dict"
        /\ \E j \in db.workshop_jobs : j.id = last'.id)
       => \A form \in {f \in WorkshopForms : f.technicians = <<>>} :
             update_workshop_job(last'.id, last'.user, form)
             => /\ db' = db
                /\ IF \/ is_admin(last'.user)
                      \/ is_assigned_to_workshop(
                             last'.user,
                             LoadJob(db.workshop_jobs, db.workshop_job_assignments,
                                     users, last'.id).obj).value
                   THEN /\ last'.status = HTTP_200_OK
                        /\ last'.info = {"Pilih minimal satu teknisi"}
                        /\ last'.location = L_none
                   ELSE /\ last'.status = HTTP_403_FORBIDDEN
                        /\ last'.info = {}
      ]_vars

\* the assigned technician's update without technicians got the form error,
\* and the job is still assigned
C33_Witness ==
    /\ last.handler = "update_workshop_job"
    /\ last.user.role = PyStr(S_teknisi)
    /\ last.status = HTTP_200_OK
    /\ last.info = {"Pilih minimal satu teknisi"}
    /\ \E a \in db.workshop_job_assignments :
          a.job_id = last.id /\ PyInt(a.user_id) = last.user.id

\* the role of the principal, stripped and in lower case, is one of `names`
RoleAmong(current_user, names) ==
    /\ current_user.kind = "dict"
    /\ current_user.role.t = "str"
    /\ Lower(Strip(current_user.role.s)) \in names

\* C34: of is_admin, is_supervisor and is_user at most one is true of a
\* principal, and is_user is true exactly of the principals whose role,
\* stripped and in lower case, is 'teknisi' or 'user'; the predicate that
\* was applied returned that value.
C34_RolePredicatesExclusive ==
    ret.fn \in {"is_admin", "is_supervisor", "is_user"}
    => /\ ~(is_admin(principal) /\ is_supervisor(principal))
       /\ ~(is_admin(principal) /\ is_user(principal))
       /\ ~(is_supervisor(principal) /\ is_user(principal))
       /\ is_user(principal) <=> RoleAmong(principal, {S_teknisi, S_user})
       /\ ret.fn = "is_user"
          => ret.value = RoleAmong(principal, {S_teknisi, S_user})
       /\ (ret.fn = "is_admin" /\ ret.value)
          => ~RoleAmong(principal, {S_teknisi, S_user, S_supervisor})
       /\ (ret.fn = "is_supervisor" /\ ret.value)
          => ~RoleAmong(principal, {S_teknisi, S_user, S_admin})

\* is_user has been applied to a technician and returned true
C34_Witness ==
    /\ ret.fn = "is_user"
    /\ principal.kind = "dict"
    /\ principal.role = PyStr(S_teknisi)
    /\ ret.value
    /\ ~is_admin(principal)
    /\ ~is_supervisor(principal)

====
